---- MODULE Spec2Model ----
(***************************************************************************)
(* Model of the XenForo -> GitHub Discussions migration tool:              *)
(*   - the progress ledger (progress.Tracker, progress.Persistence),       *)
(*   - the progress file on disk, written with os.WriteFile,               *)
(*   - the migration loop (migration.Runner) driven by Migrator.Run,       *)
(*   - the process life cycle: start, cancellation (ctx), crash, exit,     *)
(*   - the attachment download loop (attachments.Downloader),              *)
(*   - the retry loop of the GitHub client (Client.executeWithRetry), with *)
(*     its backoff computed in 64-bit arithmetic,                          *)
(*   - the paged post fetch of the XenForo client (Client.GetPosts over    *)
(*     retryableRequest), with time counted in whole seconds,              *)
(*   - the side effects a run issues (discussions, comments, downloads,    *)
(*     directories) and the start-up from an unparsable progress file.     *)
(*   - the path of a downloaded attachment (FileSanitizer.ValidatePath,    *)
(*     SanitizeFilename, Downloader.downloadSingle) over path/filepath,    *)
(*   - the rewriting of attachment references (ReplaceAttachmentLinks),    *)
(*   - the BB-code converter (Converter.ToMarkdown), pass by pass.         *)
(***************************************************************************)
EXTENDS Integers, Sequences, FiniteSets, TLC

\* ---------------------------------------------------------------- bounds
NumThreads == 2      \* thread identifiers are 1..NumThreads
MaxPosts   == 3      \* a thread has 1..MaxPosts posts
MaxRuns    == 2      \* number of times the process is started
MaxClock   == 1      \* time.Now().Unix() ranges over 0..MaxClock
MaxCands   == 2      \* longest candidate list handed to FilterCompletedThreads
MaxCalls   == 3      \* Tracker calls made when the Tracker is driven call by call
MaxAtts    == 2      \* a thread has 0..MaxAtts attachments across its posts
MaxRetryConf == 2    \* Client.maxRetries ranges over 0..MaxRetryConf
MaxFetchRetries == 3 \* xenforo Client.maxRetries ranges over 1..MaxFetchRetries
MaxReplies == 2      \* Thread.ReplyCount ranges over 0..MaxReplies
MaxPageSize == 2     \* a page of posts holds 0..MaxPageSize posts

ThreadIDs == 1..NumThreads

VARIABLES
  file,          \* the progress file: [kind: "none" | "torn" | "json", data]
  progress,      \* Tracker.progress (MigrationProgress) of the live process
  dryRun,        \* config.Migration.DryRun of the live process
  ctxDone,       \* ctx.Done() is closed
  pc,            \* position of the single thread of control
  ret,           \* value returned by Migrator.Run: "none" | "nil" | "ctx" | "err" |
                 \* "tracker" (failed to initialize progress tracker)
  candidates,    \* list handed to FilterCompletedThreads
  threads,       \* RunMigration: threads after filtering
  i,             \* RunMigration: 1-based index of the for-range loop
  posts,         \* processThread: number of posts fetched
  j,             \* processPosts: 1-based index of the for-range loop
  discussionID,  \* processPosts: "" or the id of the created discussion
  perr,          \* error returned by processThread: "nil" | "ctx" (ctx.Err()) |
                 \* "fetch" (GetPosts) | "format" (formatPost) | "create" (createDiscussion)
  atts,          \* processThread: number of attachments collected from the posts
  att,           \* Downloader.DownloadAttachments: 1-based index of the for-range loop
  created,       \* destination: discussions per thread: "none" | "one" | "many"
  comments,      \* destination: posts of the thread in hand added as comments
  now,           \* the clock
  runs,          \* process starts so far
  \* ---- github.Client and one executeWithRetry call
  maxRetries,    \* Client.maxRetries
  multiple,      \* Client.retryBackoffMultiple, a 64-bit int
  rateLimitDelay,\* Client.rateLimitDelay > 0
  rateLimitHits, \* Client.rateLimitHits
  exPc,          \* position in executeWithRetry: "idle" | "top" | "wait" (blocked
                 \* in a select on ctx.Done() and a timer) | "elapsed" (at a
                 \* select whose timer has fired already) | "op" | "rlWait" | "ret"
  attempt,       \* executeWithRetry: the loop variable
  lastErr,       \* executeWithRetry: text of the last error of the operation
  exErr,         \* value returned by executeWithRetry
  \* ---- xenforo.Client and one GetPosts call
  xfMaxRetries,  \* Client.maxRetries
  xfPc,          \* position in GetPosts: "idle" | "check" | "req" (in
                 \* retryableRequest) | "sleep" (time.Sleep of retryableRequest) |
                 \* "pace" (the select between two pages) | "ret" | "panic"
                 \* (a run-time panic unwinds the process)
  totalPosts,    \* GetPosts: thread.ReplyCount + 1
  fetched,       \* GetPosts: len(posts)
  postsPerPage,  \* GetPosts: len(firstResult.Posts)
  totalPages,    \* GetPosts: pages to fetch (0: not computed)
  page,          \* GetPosts: the page being fetched
  reqI,          \* retryableRequest: the loop variable i
  remaining,     \* seconds left of the wait the call is blocked in
  xfErr,         \* error returned by GetPosts
  \* ---- attachments.Downloader and one attachment
  attachment,    \* the xenforo.Attachment in hand: [AttachmentID, Filename]
  dsPc,          \* "idle" | "validate" | "single" | "rewrite" | "done" | "gone"
  vpErr,         \* ValidatePath of the join of the sandbox root and the filename
  filePath,      \* downloadSingle: the path it computed (<<>>: none yet)
  dsErr,         \* error returned by downloadSingle ("none": not returned)
  disk,          \* the file at filePath: "absent" | "partial" | "complete"
  relativePath,  \* ReplaceAttachmentLinks: the path written into the link
  attachments,   \* ReplaceAttachmentLinks: the attachments of the post
  message,       \* ReplaceAttachmentLinks: the text, a sequence of pieces
  rk,            \* ReplaceAttachmentLinks: 1-based index of the for-range loop
  rwPc,          \* "idle" | "loop" | "ret"
  \* ---- bbcode.Converter and one ToMarkdown call
  bbcode,        \* the text ToMarkdown was called with, a sequence of pieces
  result,        \* ToMarkdown: the local variable result
  convPc,        \* "idle" | the pass ToMarkdown is about to apply | "ret"
  \* ---- history variables (observers, never read by the program)
  fenced,        \* the fenced blocks processCodeBlocks wrote
  handed,        \* paths handed to client.DownloadAttachment by the live process
  srcMessage,    \* the text ReplaceAttachmentLinks was called with
  requests,      \* times retryableRequest has called req() for the current page
  lastResp,      \* outcome of the last req()
  invocations,   \* times the operation was invoked by the call
  waits,         \* backoff durations the call has waited for, by attempt
  onlyRetryable, \* every invocation so far failed with a retryable error
  cancelPos,     \* exPc when the cancellation signal fired ("none": not fired)
  filterP,       \* completed / failed sets at the last FilterCompletedThreads
  outcome,       \* outcome of processThread per thread in this pass
  saveFailed,    \* some Save of this pass returned an error
  dlFailed,      \* some download of the thread in hand failed
  issued,        \* what the live process has done in the phase it is in (the
                 \* pre-flight checks, the downloads of a thread, its posts):
                 \* "createDiscussion" and "addComment" calls to the destination,
                 \* "download" of an attachment, "mkdir" of or under the
                 \* attachments directory
  cancelAt,      \* thread in flight when the cancellation signal fired (0: none)
  lastCall,      \* the last Tracker call: [op, id]
  prevCall,      \* the Tracker call before it
  calls,         \* Tracker calls made so far, when driven call by call
  preCall        \* Tracker.progress before the last call

ledgerVars == <<file, progress, ctxDone, now>>
runVars    == <<dryRun, pc, ret, candidates, threads, i, posts, j, discussionID, perr, runs>>
destVars   == <<created, comments>>
dlVars     == <<atts, att, dlFailed>>
histVars   == <<filterP, outcome, saveFailed, cancelAt, lastCall, prevCall, calls,
               preCall>>
retryVarsButCancelPos ==
  <<maxRetries, multiple, rateLimitDelay, rateLimitHits, exPc, attempt, lastErr, exErr,
    invocations, waits, onlyRetryable>>
retryVars  == <<retryVarsButCancelPos, cancelPos>>
fxVars     == <<issued>>
pageVars   == <<totalPosts, fetched, postsPerPage, totalPages>>
fetchVars  == <<xfMaxRetries, xfPc, page, reqI, remaining, xfErr, requests, lastResp,
               pageVars>>
rwVars     == <<attachments, message, rk, rwPc, srcMessage>>
attVars    == <<attachment, dsPc, vpErr, filePath, dsErr, disk, relativePath, handed,
               rwVars>>
convVars   == <<bbcode, result, convPc, fenced>>
textVars   == <<attVars, convVars>>
clientVars == <<retryVars, fetchVars, textVars>>
vars       == <<ledgerVars, runVars, destVars, dlVars, fxVars, clientVars, histVars>>

\* ------------------------------------------------------------- helpers
Range(s) == {s[k] : k \in DOMAIN s}

Count(s, x) == Cardinality({k \in DOMAIN s : s[k] = x})

\* sequences over S of length at most n
SeqsUpTo(S, n) == UNION {[1..m -> S] : m \in 0..n}

\* ------------------------------------------------ progress.MigrationProgress
EmptyProgress ==
  [LastThreadID |-> 0, CompletedThreads |-> <<>>, FailedThreads |-> <<>>, LastUpdated |-> 0]

NoFile   == [kind |-> "none", data |-> EmptyProgress]
TornFile == [kind |-> "torn", data |-> EmptyProgress]
JsonFile(p) == [kind |-> "json", data |-> p]

\* Persistence.Load: the progress read from the file, or the default one
\* when ctx is cancelled, the file is missing, or it does not parse.
Load(f, cancelled) ==
  IF cancelled THEN EmptyProgress
  ELSE IF f.kind = "json" THEN f.data
  ELSE EmptyProgress

\* NewTracker: Load, with the default progress on any load error.
NewTracker(f, cancelled) == Load(f, cancelled)

\* the error Persistence.Load returns beside the progress: ctx.Err(), the
\* error of os.ReadFile, the error of json.Unmarshal, or nil
LoadErr(f, cancelled) ==
  IF cancelled THEN "ctx"
  ELSE IF f.kind = "none" THEN "read"
  ELSE IF f.kind = "torn" THEN "parse"
  ELSE "nil"

\* a NewTracker that returns the error of Load
NewTrackerErrPropagated(f, cancelled) == LoadErr(f, cancelled)

\* the error NewTracker returns: nil, whatever Load returned
NewTrackerErr(f, cancelled) == "nil"

\* a SetResumeFrom that starts the lists afresh
SetResumeFromClearing(p, id) ==
  [p EXCEPT !.LastThreadID = id, !.CompletedThreads = <<>>, !.FailedThreads = <<>>]

\* Tracker.SetResumeFrom
SetResumeFrom(p, id) == [p EXCEPT !.LastThreadID = id]

\* the linear scan "for _, id := range list { if id == threadID ... }"
RECURSIVE Contains(_, _)
Contains(list, id) ==
  IF list = <<>> THEN FALSE
  ELSE IF Head(list) = id THEN TRUE
  ELSE Contains(Tail(list), id)

\* MarkCompleted without the scan for an existing entry
MarkCompletedNoScan(p, id, t) ==
  [p EXCEPT !.CompletedThreads = Append(@, id),
            !.LastThreadID = id,
            !.LastUpdated = t]

\* Tracker.MarkCompleted, the in-memory part (save sets LastUpdated)
MarkCompleted(p, id, t) ==
  IF Contains(p.CompletedThreads, id) THEN p
  ELSE [p EXCEPT !.CompletedThreads = Append(@, id),
                 !.LastThreadID = id,
                 !.LastUpdated = t]

\* MarkFailed without the scan for an existing entry
MarkFailedNoScan(p, id, t) ==
  [p EXCEPT !.FailedThreads = Append(@, id),
            !.LastUpdated = t]

\* Tracker.MarkFailed, the in-memory part (save sets LastUpdated)
MarkFailed(p, id, t) ==
  IF Contains(p.FailedThreads, id) THEN p
  ELSE [p EXCEPT !.FailedThreads = Append(@, id),
                 !.LastUpdated = t]

\* Tracker.FilterCompletedThreads: build the map of completed ids, then keep
\* the threads that are not in it, in order.
RECURSIVE CompletedMap(_)
CompletedMap(list) ==
  IF list = <<>> THEN {}
  ELSE {Head(list)} \cup CompletedMap(Tail(list))

RECURSIVE FilterLoop(_, _)
FilterLoop(completed, ts) ==
  IF ts = <<>> THEN <<>>
  ELSE IF Head(ts) \notin completed
       THEN <<Head(ts)>> \o FilterLoop(completed, Tail(ts))
       ELSE FilterLoop(completed, Tail(ts))

\* a filter that also drops the threads recorded failed
FilterCompletedOrFailed(p, ts) ==
  FilterLoop(CompletedMap(p.CompletedThreads \o p.FailedThreads), ts)

FilterCompletedThreads(p, ts) == FilterLoop(CompletedMap(p.CompletedThreads), ts)

\* ------------------------------------------------- 64-bit integer arithmetic
\* Go's int and time.Duration are 64-bit two's complement integers.  A value is
\* held as its bytes, least significant first; products are taken byte by
\* byte, so that a product is exact when n is large enough and wraps modulo
\* 2^64 when n = WordBytes.
WordBytes == 8
WideBytes == 16
ByteBase == 256

\* byte p of a, zero beyond its length
Limb(a, p) == IF p \in DOMAIN a THEN a[p] ELSE 0

\* the bytes of a natural number below 2^31
Bytes(n) ==
  <<n % ByteBase, (n \div ByteBase) % ByteBase, (n \div 65536) % ByteBase,
    (n \div 16777216) % ByteBase, 0, 0, 0, 0>>

\* a * 256^k modulo 2^64
ShiftBytes(a, k) == [p \in 1..WordBytes |-> IF p <= k THEN 0 ELSE a[p - k]]

\* sum of the byte products of weight 256^(c-1)
RECURSIVE ColSum(_, _, _, _)
ColSum(a, b, c, p) ==
  IF p = 0 THEN 0
  ELSE Limb(a, p) * Limb(b, c + 1 - p) + ColSum(a, b, c, p - 1)

RECURSIVE MulFrom(_, _, _, _, _)
MulFrom(a, b, n, c, carry) ==
  IF c > n THEN <<>>
  ELSE LET t == ColSum(a, b, c, c) + carry
       IN  <<t % ByteBase>> \o MulFrom(a, b, n, c + 1, t \div ByteBase)

\* the low n bytes of a * b
Mul(a, b, n) == MulFrom(a, b, n, 1, 0)

\* a * b as Go computes it on int64
Mul64(a, b) == Mul(a, b, WordBytes)

\* the sign bit of an int64
Negative(a) == a[WordBytes] >= 128

\* unsigned a < b, compared from byte p down
RECURSIVE LessFrom(_, _, _)
LessFrom(a, b, p) ==
  IF p = 0 THEN FALSE
  ELSE IF Limb(a, p) # Limb(b, p) THEN Limb(a, p) < Limb(b, p)
  ELSE LessFrom(a, b, p - 1)

\* a < b on int64
Less64(a, b) ==
  IF Negative(a) # Negative(b) THEN Negative(a)
  ELSE LessFrom(a, b, WordBytes)

\* time.Second and time.Minute in nanoseconds
Second == Bytes(1000000000)

MinuteSeconds == 60

\* const maxBackoffDuration = 5 * time.Minute
maxBackoffDuration == Mul64(Bytes(5 * MinuteSeconds), Second)

\* the backoff of a retry attempt:
\*   time.Duration(attempt*c.retryBackoffMultiple) * time.Second, capped
backoffDuration(a, m) ==
  LET d == Mul64(Mul64(Bytes(a), m), Second)
  IN  IF Less64(maxBackoffDuration, d) THEN maxBackoffDuration ELSE d


\* ----------------------------------------------------------------- Init
NoCall == [op |-> "none", id |-> 0]

HistInit ==
  /\ filterP = [completed |-> {}, failed |-> {}]
  /\ outcome = [t \in ThreadIDs |-> "none"]
  /\ saveFailed = FALSE
  /\ cancelAt = 0
  /\ lastCall = NoCall
  /\ prevCall = NoCall
  /\ calls = 0
  /\ preCall = EmptyProgress

\* a github.Client that is not in a call
ClientIdle ==
  /\ maxRetries = 0
  /\ multiple = Bytes(1)
  /\ rateLimitDelay = FALSE
  /\ rateLimitHits = 0
  /\ exPc = "idle"
  /\ attempt = 0
  /\ lastErr = {}
  /\ exErr = "none"
  /\ invocations = 0
  /\ waits = <<>>
  /\ onlyRetryable = TRUE
  /\ cancelPos = "none"

\* a xenforo.Client that is not in a call
FetchIdle ==
  /\ xfMaxRetries = 1
  /\ xfPc = "idle"
  /\ page = 1
  /\ totalPosts = 1
  /\ fetched = 0
  /\ postsPerPage = 0
  /\ totalPages = 0
  /\ reqI = 0
  /\ remaining = 0
  /\ xfErr = "none"
  /\ requests = 0
  /\ lastResp = "none"

\* a Downloader that has no attachment in hand
AttIdle ==
  /\ attachment = [AttachmentID |-> 1, Filename |-> <<>>]
  /\ dsPc = "idle"
  /\ vpErr = "none"
  /\ filePath = <<>>
  /\ dsErr = "none"
  /\ disk = "absent"
  /\ relativePath = <<>>
  /\ handed = {}
  /\ attachments = <<>>
  /\ message = <<>>
  /\ rk = 1
  /\ rwPc = "idle"
  /\ srcMessage = <<>>

\* a Converter that is not in a call
ConvIdle ==
  /\ bbcode = <<>>
  /\ result = <<>>
  /\ convPc = "idle"
  /\ fenced = <<>>

CommonInit ==
  /\ dryRun = FALSE
  /\ ctxDone = FALSE
  /\ ret = "none"
  /\ candidates = <<>>
  /\ threads = <<>>
  /\ i = 1
  /\ posts = 0
  /\ j = 1
  /\ discussionID = ""
  /\ perr = "nil"
  /\ atts = 0
  /\ att = 1
  /\ dlFailed = FALSE
  /\ issued = {}
  /\ created = [t \in ThreadIDs |-> "none"]
  /\ comments = {}
  /\ now = 0
  /\ runs = 0
  /\ HistInit

Init ==
  /\ CommonInit
  /\ ClientIdle
  /\ FetchIdle
  /\ AttIdle
  /\ ConvIdle
  /\ file = NoFile
  /\ progress = EmptyProgress
  /\ pc = "stopped"


\* ------------------------------------------------------ Persistence.Save
\* Save first checks ctx; os.WriteFile then opens the file with O_TRUNC (the
\* file is empty from here on) and writes the data in a second step.
\* SaveOpen is the file after the first half for each way it can go.
SaveOutcomes == {"ok", "openErr"}

SaveOpen(f, cancelled, res) ==
  IF cancelled THEN f
  ELSE IF res = "ok" THEN TornFile
  ELSE f

SaveOpened(cancelled, res) == ~cancelled /\ res = "ok"

\* a write that reports success without replacing the file contents
SaveWriteSkipped(f, p, ok) == f

\* the second half of os.WriteFile: the data is written in full, or the
\* write fails and the truncated file stays behind
SaveWrite(f, p, ok) == IF ok THEN JsonFile(p) ELSE f

\* ------------------------------------------------- one Tracker mark call
MarkOps == {"MarkCompleted", "MarkFailed"}

MarkApply(op, p, id, t) ==
  IF op = "MarkCompleted" THEN MarkCompleted(p, id, t) ELSE MarkFailed(p, id, t)

MarkList(op, p) ==
  IF op = "MarkCompleted" THEN p.CompletedThreads ELSE p.FailedThreads

\* The call up to the point where os.WriteFile has opened the file.
\* retPc: where control goes when the call returns; wrPc: the write step;
\* adv: what the caller adds to its loop index once the call has returned.
TrackerMark(op, id, retPc, wrPc, adv) ==
  /\ progress' = MarkApply(op, progress, id, now)
  /\ IF Contains(MarkList(op, progress), id)
     THEN /\ file' = file
          /\ pc' = retPc
          /\ i' = i + adv
          /\ saveFailed' = saveFailed
     ELSE \E res \in SaveOutcomes :
          /\ file' = SaveOpen(file, ctxDone, res)
          /\ IF SaveOpened(ctxDone, res)
             THEN pc' = wrPc /\ i' = i /\ saveFailed' = saveFailed
             ELSE pc' = retPc /\ i' = i + adv /\ saveFailed' = (retPc = "loopTop")

\* os.WriteFile, second half, then the return of the mark call
WriteFile ==
  /\ pc \in {"write", "apiWrite"}
  /\ \E ok \in BOOLEAN :
       /\ file' = SaveWrite(file, progress, ok)
       /\ saveFailed' = (saveFailed \/ (~ok /\ pc = "write"))
  /\ IF pc = "write" THEN pc' = "loopTop" /\ i' = i + 1
                     ELSE pc' = "api" /\ i' = i
  /\ UNCHANGED <<progress, ctxDone, now, dryRun, ret, candidates, threads, posts, j,
                 discussionID, perr, runs, destVars, filterP, outcome, cancelAt,
                 lastCall, prevCall, calls, preCall>>
  /\ UNCHANGED <<dlVars, clientVars>>
  /\ UNCHANGED fxVars

\* ------------------------------------------------------ process life cycle
Running == pc \notin {"stopped", "api", "apiWrite"}

InFlight == pc \in {"fetchPosts", "download", "postTop", "format", "submit", "sleep"}

\* what a process loses when it ends
ProcessGone ==
  /\ pc' = "stopped"
  /\ progress' = EmptyProgress
  /\ dryRun' = FALSE
  /\ ctxDone' = FALSE
  /\ ret' = "none"
  /\ candidates' = <<>>
  /\ threads' = <<>>
  /\ i' = 1
  /\ posts' = 0
  /\ j' = 1
  /\ discussionID' = ""
  /\ perr' = "nil"
  /\ atts' = 0
  /\ att' = 1
  /\ dlFailed' = FALSE
  /\ filterP' = [completed |-> {}, failed |-> {}]
  /\ outcome' = [t \in ThreadIDs |-> "none"]
  /\ saveFailed' = FALSE
  /\ cancelAt' = 0
  /\ lastCall' = NoCall
  /\ prevCall' = NoCall
  /\ preCall' = EmptyProgress
  /\ comments' = {}
  /\ issued' = {}
  /\ cancelPos' = "none"
  /\ UNCHANGED <<file, now, runs, created, calls, retryVarsButCancelPos, fetchVars,
                 textVars>>

\* main: the process starts with its configuration
Boot ==
  /\ pc = "stopped"
  /\ runs < MaxRuns
  /\ runs' = runs + 1
  /\ \E dr \in BOOLEAN : dryRun' = dr
  /\ pc' = "newTracker"
  /\ UNCHANGED <<ledgerVars, ret, candidates, threads, i, posts, j, discussionID, perr,
                 destVars, histVars>>
  /\ UNCHANGED <<dlVars, clientVars>>
  /\ UNCHANGED fxVars

\* the configured ResumeFrom values: 0 is "not configured", the other is the
\* identifier of the last thread
ResumePoints == {0, NumThreads}

\* PreflightChecker.checkFileSystem: os.MkdirAll of the attachments directory,
\* unless the run is a dry run
checkFileSystem(dry) == IF dry THEN {} ELSE {"mkdir"}

\* Migrator.Run: NewTracker, SetResumeFrom when configured, pre-flight checks
MigratorRun ==
  /\ pc = "newTracker"
  /\ IF NewTrackerErr(file, ctxDone) # "nil"
     THEN /\ pc' = "done"
          /\ ret' = "tracker"
          /\ UNCHANGED <<progress, issued>>
     ELSE /\ \E rf \in ResumePoints :
               progress' = IF rf > 0 THEN SetResumeFrom(NewTracker(file, ctxDone), rf)
                                     ELSE NewTracker(file, ctxDone)
          /\ \E preflightOk \in BOOLEAN :
               IF preflightOk
               THEN pc' = "getThreads" /\ ret' = ret /\ issued' = checkFileSystem(dryRun)
               ELSE pc' = "done" /\ ret' = "err" /\ issued' = issued
  /\ UNCHANGED <<file, ctxDone, now, dryRun, candidates, threads, i, posts, j,
                 discussionID, perr, runs, destVars, histVars>>
  /\ UNCHANGED <<dlVars, clientVars>>

\* the user interrupts: ctx is cancelled
Cancel ==
  /\ pc \notin {"stopped", "done"}
  /\ ~ctxDone
  /\ ctxDone' = TRUE
  /\ cancelAt' = IF InFlight THEN threads[i] ELSE cancelAt
  /\ cancelPos' = IF pc \in {"api", "apiWrite"} THEN exPc ELSE cancelPos
  /\ UNCHANGED <<file, progress, now, runVars, destVars, filterP, outcome, saveFailed,
                 lastCall, prevCall, calls, preCall>>
  /\ UNCHANGED <<dlVars, fxVars, retryVarsButCancelPos, fetchVars, textVars>>

\* the process dies (kill, power loss, panic) wherever it is
Crash ==
  /\ Running
  /\ pc # "done"
  /\ ProcessGone

\* the process returns from main
Exit ==
  /\ pc = "done"
  /\ ProcessGone

Tick ==
  /\ now < MaxClock
  /\ now' = now + 1
  /\ UNCHANGED <<file, progress, ctxDone, runVars, destVars, histVars>>
  /\ UNCHANGED <<dlVars, clientVars>>
  /\ UNCHANGED fxVars


\* ------------------------------------------------------ xenforo collaborator
\* what GetThreads can return: thread identifiers are unique and the forum
\* lists them in a stable order; new threads may have appeared since the last run
Forums == {[k \in 1..n |-> k] : n \in 0..NumThreads}

\* ---------------------------------------------------- Runner.RunMigration
\* GetThreads, then FilterCompletedThreads
GetThreads ==
  /\ pc = "getThreads"
  /\ IF ctxDone
     THEN /\ pc' = "done" /\ ret' = "ctx"
          /\ UNCHANGED <<candidates, threads, filterP>>
     ELSE \/ /\ pc' = "done" /\ ret' = "err"
             /\ UNCHANGED <<candidates, threads, filterP>>
          \/ \E w \in Forums :
             /\ candidates' = w
             /\ threads' = FilterCompletedThreads(progress, w)
             /\ filterP' = [completed |-> Range(progress.CompletedThreads),
                            failed |-> Range(progress.FailedThreads)]
             /\ pc' = "loopTop" /\ ret' = ret
  /\ i' = 1
  /\ UNCHANGED <<ledgerVars, dryRun, posts, j, discussionID, perr, runs, destVars,
                 outcome, saveFailed, cancelAt, lastCall, prevCall, calls,
                 preCall>>
  /\ UNCHANGED <<dlVars, clientVars>>
  /\ UNCHANGED fxVars

\* a loop that returns the error of a failed thread instead of continuing
LoopTopStopsOnFailure ==
  /\ pc = "loopTop"
  /\ IF i > 1 /\ outcome[threads[i - 1]] = "fail" THEN pc' = "done" /\ ret' = "err"
     ELSE IF i > Len(threads) THEN pc' = "done" /\ ret' = "nil"
     ELSE IF ctxDone THEN pc' = "done" /\ ret' = "ctx"
     ELSE pc' = "fetchPosts" /\ ret' = ret
  /\ UNCHANGED <<ledgerVars, dryRun, candidates, threads, i, posts, j, discussionID,
                 perr, runs, destVars, histVars>>
  /\ UNCHANGED <<dlVars, clientVars>>
  /\ UNCHANGED fxVars

\* top of "for i, thread := range threads": the loop ends, or ctx is checked
LoopTop ==
  /\ pc = "loopTop"
  /\ IF i > Len(threads) THEN pc' = "done" /\ ret' = "nil"     \* PrintSummary
     ELSE IF ctxDone THEN pc' = "done" /\ ret' = "ctx"
     ELSE pc' = "fetchPosts" /\ ret' = ret
  /\ UNCHANGED <<ledgerVars, dryRun, candidates, threads, i, posts, j, discussionID,
                 perr, runs, destVars, histVars>>
  /\ UNCHANGED <<dlVars, clientVars>>
  /\ UNCHANGED fxVars

\* what GetPosts can return for a thread: a single post or a thread of
\* MaxPosts posts, without attachments or with MaxAtts of them
PostCounts == {1, MaxPosts}

AttCounts == {0, MaxAtts}

\* a fetch whose error is dropped: processThread goes on without posts
FetchPostsErrorDropped ==
  /\ pc = "fetchPosts"
  /\ IF ctxDone
     THEN pc' = "markFailed" /\ perr' = "ctx" /\ posts' = posts /\ atts' = atts
     ELSE \/ pc' = "download" /\ perr' = "fetch" /\ posts' = posts /\ atts' = atts
          \/ \E n \in PostCounts, a \in AttCounts :
               pc' = "download" /\ posts' = n /\ atts' = a /\ perr' = perr
  /\ UNCHANGED <<ledgerVars, dryRun, ret, candidates, threads, i, j, discussionID,
                 runs, destVars, att, dlFailed, histVars>>
  /\ UNCHANGED clientVars
  /\ UNCHANGED fxVars

\* processThread -> fetchPosts -> GetPosts, then collectAttachments: the
\* thread has n posts carrying a attachments between them
FetchPosts ==
  /\ pc = "fetchPosts"
  /\ IF ctxDone
     THEN pc' = "markFailed" /\ perr' = "ctx" /\ posts' = posts /\ atts' = atts
     ELSE \/ pc' = "markFailed" /\ perr' = "fetch" /\ posts' = posts /\ atts' = atts
          \/ \E n \in PostCounts, a \in AttCounts :
               pc' = "download" /\ posts' = n /\ atts' = a /\ perr' = perr
  /\ UNCHANGED <<ledgerVars, dryRun, ret, candidates, threads, i, j, discussionID,
                 runs, destVars, att, dlFailed, histVars>>
  /\ UNCHANGED clientVars
  /\ UNCHANGED fxVars

\* downloadAttachments has returned (its error, if any, is logged by
\* processThread and dropped): processPosts starts with an empty discussionID
EnterProcessPosts ==
  /\ pc' = "postTop"
  /\ j' = 1
  /\ discussionID' = ""
  /\ comments' = {}
  /\ atts' = 0
  /\ att' = 1
  /\ issued' = {}
  /\ UNCHANGED <<perr, dlFailed>>

\* a downloader that does not look at its dryRun flag
DownloadSkippedNever == FALSE

\* "if d.dryRun { log.Printf(...); continue }"
DownloadSkipped == dryRun

\* what downloadSingle can come to: MkdirAll of the subdirectory fails; the
\* subdirectory is there and the download fails; the file is downloaded (or
\* was there already)
SingleOutcomes == {"mkdirErr", "dlErr", "ok"}

\* a download loop that returns the error of the first failed download, which
\* processThread then returns
DownloadAttachmentsFailFast ==
  /\ pc = "download"
  /\ IF atts = 0 \/ att > atts \/ ctxDone
     THEN EnterProcessPosts
     ELSE IF DownloadSkipped
     THEN /\ att' = att + 1
          /\ UNCHANGED <<pc, j, discussionID, comments, atts, perr, dlFailed>>
     ELSE \/ /\ att' = att + 1
             /\ UNCHANGED <<pc, j, discussionID, comments, atts, perr, dlFailed>>
          \/ /\ dlFailed' = TRUE
             /\ pc' = "markFailed"
             /\ perr' = "download"
             /\ UNCHANGED <<att, j, discussionID, comments, atts>>
  /\ IF atts = 0 \/ att > atts \/ ctxDone
     THEN TRUE
     ELSE IF DownloadSkipped THEN UNCHANGED issued
     ELSE issued' = issued \cup {"mkdir", "download"}
  /\ UNCHANGED <<ledgerVars, dryRun, ret, candidates, threads, i, posts, runs,
                 created, histVars>>
  /\ UNCHANGED clientVars

\* processThread -> downloadAttachments -> Downloader.DownloadAttachments, one
\* iteration of "for _, attachment := range attachments" per step: nothing to
\* download, or the loop is over, or ctx is cancelled (ctx.Err() is returned
\* and logged): processPosts is next; in a dry run the attachment is skipped;
\* otherwise downloadSingle succeeds or fails, and a failure is logged and the
\* loop continues
DownloadAttachments ==
  /\ pc = "download"
  /\ IF atts = 0 \/ att > atts \/ ctxDone
     THEN EnterProcessPosts
     ELSE /\ att' = att + 1
          /\ IF DownloadSkipped
             THEN UNCHANGED <<dlFailed, issued>>
             ELSE \E res \in SingleOutcomes :
                    /\ dlFailed' = (dlFailed \/ res # "ok")
                    /\ issued' = IF res = "mkdirErr" THEN issued
                                 ELSE issued \cup {"mkdir", "download"}
          /\ UNCHANGED <<pc, j, discussionID, comments, atts, perr>>
  /\ UNCHANGED <<ledgerVars, dryRun, ret, candidates, threads, i, posts, runs,
                 created, histVars>>
  /\ UNCHANGED clientVars

\* top of "for j, post := range posts"
PostTop ==
  /\ pc = "postTop"
  /\ IF j > posts THEN pc' = "markCompleted" /\ perr' = "nil"
     ELSE IF ctxDone THEN pc' = "markFailed" /\ perr' = "ctx"
     ELSE pc' = "format" /\ perr' = perr
  /\ UNCHANGED <<ledgerVars, dryRun, ret, candidates, threads, i, posts, j,
                 discussionID, runs, destVars, histVars>>
  /\ UNCHANGED <<dlVars, clientVars>>
  /\ UNCHANGED fxVars

\* formatPost: ProcessContent and ReplaceAttachmentLinks return ctx.Err() once
\* ctx is cancelled; FormatMessage rejects invalid input
FormatPost ==
  /\ pc = "format"
  /\ IF ctxDone THEN pc' = "markFailed" /\ perr' = "ctx"
     ELSE \/ pc' = "submit" /\ perr' = perr
          \/ pc' = "markFailed" /\ perr' = "format"
  /\ UNCHANGED <<ledgerVars, dryRun, ret, candidates, threads, i, posts, j,
                 discussionID, runs, destVars, histVars>>
  /\ UNCHANGED <<dlVars, clientVars>>
  /\ UNCHANGED fxVars

\* where processPosts goes after a submission: the pacing sleep, skipped in dry run
AfterSubmit == IF dryRun THEN "postTop" ELSE "sleep"

\* the destination after one more discussion for a thread
OneMore(n) == IF n = "none" THEN "one" ELSE "many"

\* a loop that takes the createDiscussion branch for every post
CreateDiscussionEveryPost ==
  /\ pc = "submit"
  /\ IF dryRun
     THEN /\ discussionID' = "" /\ pc' = AfterSubmit /\ j' = j + 1
          /\ UNCHANGED <<created, perr>>
     ELSE \/ /\ ~ctxDone
             /\ created' = [created EXCEPT ![threads[i]] = OneMore(@)]
             /\ discussionID' = "D"
             /\ pc' = AfterSubmit
             /\ UNCHANGED <<j, perr>>
          \/ /\ pc' = "markFailed"
             /\ perr' = IF ctxDone THEN "ctx" ELSE "create"
             /\ UNCHANGED <<created, discussionID, j>>
  /\ issued' = IF dryRun \/ ctxDone THEN issued ELSE issued \cup {"createDiscussion"}
  /\ UNCHANGED <<ledgerVars, dryRun, ret, candidates, threads, i, posts, runs,
                 comments, dlVars, clientVars, histVars>>

\* j == 0 in the code: createDiscussion
CreateDiscussion ==
  /\ pc = "submit"
  /\ j = 1
  /\ IF dryRun
     THEN /\ discussionID' = "" /\ pc' = AfterSubmit /\ j' = j + 1
          /\ UNCHANGED <<created, perr>>
     ELSE \/ /\ ~ctxDone
             /\ created' = [created EXCEPT ![threads[i]] = OneMore(@)]
             /\ discussionID' = "D"
             /\ pc' = AfterSubmit
             /\ UNCHANGED <<j, perr>>
          \/ /\ pc' = "markFailed"
             /\ perr' = IF ctxDone THEN "ctx" ELSE "create"
             /\ UNCHANGED <<created, discussionID, j>>
  /\ issued' = IF dryRun \/ ctxDone THEN issued ELSE issued \cup {"createDiscussion"}
  /\ UNCHANGED <<ledgerVars, dryRun, ret, candidates, threads, i, posts, runs,
                 comments, histVars>>
  /\ UNCHANGED <<dlVars, clientVars>>

\* an addComment whose error is returned by processPosts
AddCommentFailureReturned ==
  /\ pc = "submit"
  /\ j > 1
  /\ IF dryRun \/ discussionID = ""
     THEN /\ pc' = AfterSubmit /\ j' = IF dryRun THEN j + 1 ELSE j
          /\ UNCHANGED <<comments, perr>>
     ELSE \/ /\ ~ctxDone /\ comments' = comments \cup {j}
             /\ pc' = AfterSubmit /\ j' = j /\ perr' = perr
          \/ /\ pc' = "markFailed" /\ perr' = "comment"
             /\ UNCHANGED <<comments, j>>
  /\ issued' = IF dryRun \/ discussionID = "" \/ ctxDone THEN issued
                ELSE issued \cup {"addComment"}
  /\ UNCHANGED <<ledgerVars, dryRun, ret, candidates, threads, i, posts,
                 discussionID, runs, created, dlVars, clientVars, histVars>>

\* j > 0 in the code: addComment; its error is logged and the loop goes on
AddComment ==
  /\ pc = "submit"
  /\ j > 1
  /\ IF dryRun \/ discussionID = ""
     THEN UNCHANGED comments
     ELSE \/ ~ctxDone /\ comments' = comments \cup {j}
          \/ UNCHANGED comments
  /\ issued' = IF dryRun \/ discussionID = "" \/ ctxDone THEN issued
                ELSE issued \cup {"addComment"}
  /\ pc' = AfterSubmit
  /\ j' = IF dryRun THEN j + 1 ELSE j
  /\ UNCHANGED <<ledgerVars, dryRun, ret, candidates, threads, i, posts,
                 discussionID, perr, runs, created, histVars>>
  /\ UNCHANGED <<dlVars, clientVars>>

\* the context-aware sleep between posts
Sleep ==
  /\ pc = "sleep"
  /\ IF ctxDone THEN pc' = "markFailed" /\ perr' = "ctx" /\ j' = j
     ELSE pc' = "postTop" /\ j' = j + 1 /\ perr' = perr
  /\ UNCHANGED <<ledgerVars, dryRun, ret, candidates, threads, i, posts,
                 discussionID, runs, destVars, histVars>>
  /\ UNCHANGED <<dlVars, clientVars>>
  /\ UNCHANGED fxVars

\* processThread has returned: its locals (the posts, the loop index, the
\* discussion id, the error) are gone when RunMigration records the outcome
ThreadReturned ==
  /\ posts' = 0
  /\ j' = 1
  /\ discussionID' = ""
  /\ perr' = "nil"
  /\ atts' = 0
  /\ att' = 1
  /\ dlFailed' = FALSE
  /\ comments' = {}
  /\ issued' = {}

\* processThread returned an error: MarkFailed, then continue
RecordFailed ==
  /\ pc = "markFailed"
  /\ outcome' = [outcome EXCEPT ![threads[i]] = "fail"]
  /\ TrackerMark("MarkFailed", threads[i], "loopTop", "write", 1)
  /\ ThreadReturned
  /\ UNCHANGED <<ctxDone, now, dryRun, ret, candidates, threads, runs, created,
                 filterP, cancelAt, lastCall, prevCall, calls, preCall>>
  /\ UNCHANGED clientVars

\* processThread returned nil: MarkCompleted
RecordCompleted ==
  /\ pc = "markCompleted"
  /\ outcome' = [outcome EXCEPT ![threads[i]] = "ok"]
  /\ TrackerMark("MarkCompleted", threads[i], "loopTop", "write", 1)
  /\ ThreadReturned
  /\ UNCHANGED <<ctxDone, now, dryRun, ret, candidates, threads, runs, created,
                 filterP, cancelAt, lastCall, prevCall, calls, preCall>>
  /\ UNCHANGED clientVars

\* ------------------------------------------------------- the specification
ProgramStep ==
  \/ MigratorRun
  \/ GetThreads
  \/ LoopTop
  \/ FetchPosts
  \/ DownloadAttachments
  \/ PostTop
  \/ FormatPost
  \/ CreateDiscussion
  \/ AddComment
  \/ Sleep
  \/ RecordFailed
  \/ RecordCompleted
  \/ WriteFile

Next ==
  \/ Boot
  \/ ProgramStep
  \/ Exit
  \/ Cancel
  \/ Crash

Spec == Init /\ [][Next]_vars


\* ------------------------------------------------------------------------
\* The Tracker driven call by call (any caller, any order of calls), over the
\* same file and clock.
\* ------------------------------------------------------------------------
LedgerInit ==
  /\ CommonInit
  /\ ClientIdle
  /\ FetchIdle
  /\ AttIdle
  /\ ConvIdle
  /\ file = NoFile
  /\ progress = EmptyProgress
  /\ pc = "api"

RecordCall(op, id) ==
  /\ calls < MaxCalls
  /\ calls' = calls + 1
  /\ prevCall' = lastCall
  /\ lastCall' = [op |-> op, id |-> id]
  /\ preCall' = progress

ApiMarkCompleted ==
  /\ pc = "api"
  /\ \E id \in ThreadIDs :
       /\ TrackerMark("MarkCompleted", id, "api", "apiWrite", 0)
       /\ RecordCall("MarkCompleted", id)
  /\ UNCHANGED <<ctxDone, now, dryRun, ret, candidates, threads, posts, j,
                 discussionID, perr, runs, destVars, filterP, outcome, cancelAt>>
  /\ UNCHANGED <<dlVars, clientVars>>
  /\ UNCHANGED fxVars

ApiMarkFailed ==
  /\ pc = "api"
  /\ \E id \in ThreadIDs :
       /\ TrackerMark("MarkFailed", id, "api", "apiWrite", 0)
       /\ RecordCall("MarkFailed", id)
  /\ UNCHANGED <<ctxDone, now, dryRun, ret, candidates, threads, posts, j,
                 discussionID, perr, runs, destVars, filterP, outcome, cancelAt>>
  /\ UNCHANGED <<dlVars, clientVars>>
  /\ UNCHANGED fxVars

ApiSetResumeFrom ==
  /\ pc = "api"
  /\ \E id \in ThreadIDs :
       /\ progress' = SetResumeFrom(progress, id)
       /\ RecordCall("SetResumeFrom", id)
  /\ UNCHANGED <<file, ctxDone, now, runVars, destVars, filterP, outcome, saveFailed,
                 cancelAt>>
  /\ UNCHANGED <<dlVars, clientVars>>
  /\ UNCHANGED fxVars

LedgerNext ==
  \/ ApiMarkCompleted
  \/ ApiMarkFailed
  \/ ApiSetResumeFrom
  \/ WriteFile
  \/ Cancel
  \/ Tick

LedgerSpec == LedgerInit /\ [][LedgerNext]_vars

\* ------------------------------------------------------------------------
\* Ledgers a progress file can hold: the lists hold no identifier twice
\* (MarkCompleted and MarkFailed scan before they append).
\* ------------------------------------------------------------------------
SortedLists ==
  {w \in SeqsUpTo(ThreadIDs, NumThreads) : \A a, b \in DOMAIN w : a < b => w[a] < w[b]}

LedgerStates ==
  {[LastThreadID |-> IF c = <<>> THEN 0 ELSE c[Len(c)],
    CompletedThreads |-> c, FailedThreads |-> f, LastUpdated |-> 0] :
      c \in SortedLists, f \in SortedLists}

LedgerFiles == {NoFile, TornFile} \cup {JsonFile(p) : p \in LedgerStates}

\* ------------------------------------------------------------------------
\* FilterCompletedThreads applied to a Tracker made from any progress file,
\* on any candidate list.
\* ------------------------------------------------------------------------
FilterInit ==
  /\ CommonInit
  /\ ClientIdle
  /\ FetchIdle
  /\ AttIdle
  /\ ConvIdle
  /\ file \in LedgerFiles
  /\ progress = NewTracker(file, FALSE)
  /\ pc = "api"

\* FilterCompletedThreads on any candidate list, repeated identifiers included
ApiFilter ==
  /\ pc = "api"
  /\ \E w \in SeqsUpTo(ThreadIDs, MaxCands) :
       /\ candidates' = w
       /\ threads' = FilterCompletedThreads(progress, w)
  /\ filterP' = [completed |-> Range(progress.CompletedThreads),
                 failed |-> Range(progress.FailedThreads)]
  /\ UNCHANGED <<ledgerVars, dryRun, pc, ret, i, posts, j, discussionID, perr, runs,
                 destVars, outcome, saveFailed, cancelAt, lastCall, prevCall, calls,
                 preCall>>
  /\ UNCHANGED <<dlVars, clientVars>>
  /\ UNCHANGED fxVars

FilterNext == ApiFilter

FilterSpec == FilterInit /\ [][FilterNext]_vars



\* ------------------------------------------------------------------------
\* One run of the migration over any progress file, without cancellation and
\* without a crash; the single thread of control keeps running until
\* RunMigration returns.
\* ------------------------------------------------------------------------
LiveInit ==
  /\ CommonInit
  /\ ClientIdle
  /\ FetchIdle
  /\ AttIdle
  /\ ConvIdle
  /\ file \in LedgerFiles
  /\ progress = EmptyProgress
  /\ pc = "stopped"

LiveNext ==
  \/ Boot
  \/ ProgramStep

LiveSpec == LiveInit /\ [][LiveNext]_vars /\ WF_vars(ProgramStep)

\* ------------------------------------------------------------------------
\* One run of the migration from a fresh progress file, which the user may
\* cancel at any point: what happens to each thread between fetchPosts and the
\* return of processThread.
\* ------------------------------------------------------------------------
PassNext ==
  \/ Boot
  \/ ProgramStep
  \/ Cancel

PassSpec == Init /\ [][PassNext]_vars

\* one start of the program with a progress file that exists and does not
\* parse (the file a crash between the two halves of os.WriteFile leaves)
StartInit ==
  /\ CommonInit
  /\ ClientIdle
  /\ FetchIdle
  /\ AttIdle
  /\ ConvIdle
  /\ file = TornFile
  /\ progress = EmptyProgress
  /\ pc = "stopped"

StartSpec == StartInit /\ [][PassNext]_vars

\* ------------------------------------------------------------------------
\* github.Client.executeWithRetry: one call, with any configuration NewClient
\* accepts, an operation that returns nil or any error text on each
\* invocation, and a ctx that can be cancelled at any point.
\* ------------------------------------------------------------------------
\* What an error text can contain, as far as the classification looks:
\* "rateLimit" is one of the patterns of parseRateLimitFromError, "transient"
\* one of the retryablePatterns, "permanent" one of the nonRetryablePatterns.
\* A text can contain several of them ("403 Forbidden: API rate limit
\* exceeded") or none.
Signatures == {"rateLimit", "transient", "permanent"}

ErrTexts == SUBSET Signatures

\* parseRateLimitFromError: isRateLimit
parseRateLimitFromError(e) == "rateLimit" \in e

\* an isRetryableError without the list of non-retryable patterns
isRetryableErrorAlways(e) == TRUE

\* isRetryableError: the retryable patterns are looked for first, then the
\* non-retryable ones; a text with neither is retryable
isRetryableError(e) ==
  IF "transient" \in e THEN TRUE
  ELSE IF "permanent" \in e THEN FALSE
  ELSE TRUE

\* a classification that looks for a non-retryable text before a rate limit
ClassifyPermanentFirst(e) ==
  IF ~isRetryableError(e) THEN "Permanent"
  ELSE IF parseRateLimitFromError(e) THEN "RateLimited"
  ELSE "Retryable"

\* the order in which executeWithRetry classifies the error of an attempt
Classify(e) ==
  IF parseRateLimitFromError(e) THEN "RateLimited"
  ELSE IF ~isRetryableError(e) THEN "Permanent"
  ELSE "Retryable"

\* a test that gives up one attempt early
AttemptsLeftOneLess(a, max) == a + 1 < max

\* the negation of "attempt >= c.maxRetries"
AttemptsLeft(a, max) == a < max

\* a loop that retries without counting the attempt
NextAttemptStuck(a) == a

\* attempt++ of the for loop
NextAttempt(a) == a + 1

\* configurations NewClient accepts: maxRetries >= 0, retryBackoffMultiple >= 1
\* (any int), rateLimitDelay >= 0
Multiples ==
  {Bytes(1), Bytes(2), Bytes(150), Bytes(301),
   ShiftBytes(Bytes(320), 3),     \* 5368709120
   ShiftBytes(Bytes(3), 4)}       \* 12884901888

RetryInit ==
  /\ CommonInit
  /\ file = NoFile
  /\ progress = EmptyProgress
  /\ pc = "api"
  /\ maxRetries \in 0..MaxRetryConf
  /\ multiple \in Multiples
  /\ rateLimitDelay \in BOOLEAN
  /\ rateLimitHits = 0
  /\ exPc = "idle"
  /\ attempt = 0
  /\ lastErr = {}
  /\ exErr = "none"
  /\ invocations = 0
  /\ waits = <<>>
  /\ onlyRetryable = TRUE
  /\ cancelPos = "none"
  /\ FetchIdle
  /\ AttIdle
  /\ ConvIdle

\* what executeWithRetry leaves alone
ExecFrame ==
  UNCHANGED <<file, progress, now, runVars, destVars, dlVars, histVars, ctxDone,
              maxRetries, multiple, rateLimitDelay, cancelPos, fetchVars, fxVars,
              textVars>>

\* the call returns err
ExecReturn(err) ==
  /\ exPc' = "ret"
  /\ exErr' = err

\* the call starts: "for attempt := 0; ..."
ExecCall ==
  /\ pc = "api"
  /\ exPc = "idle"
  /\ exPc' = "top"
  /\ attempt' = 0
  /\ UNCHANGED <<rateLimitHits, lastErr, exErr, invocations, waits, onlyRetryable>>
  /\ ExecFrame

\* time.After(d) with d <= 0 has fired by the time the select looks at it
TimerPending(d) == ~Negative(d) /\ d # Bytes(0)

\* top of the loop: the loop condition, the ctx check, then the choice of the
\* wait: the backoff of a retry, the rate limit delay of a first attempt, none
ExecTop ==
  /\ exPc = "top"
  /\ IF attempt > maxRetries
     THEN ExecReturn("failed after retries") /\ UNCHANGED waits
     ELSE IF ctxDone
     THEN ExecReturn("cancelled") /\ UNCHANGED waits
     ELSE IF attempt > 0
     THEN /\ exPc' = IF TimerPending(backoffDuration(attempt, multiple))
                      THEN "wait" ELSE "elapsed"
          /\ waits' = Append(waits, backoffDuration(attempt, multiple))
          /\ UNCHANGED exErr
     ELSE /\ exPc' = IF rateLimitDelay THEN "wait" ELSE "op"
          /\ UNCHANGED <<waits, exErr>>
  /\ UNCHANGED <<rateLimitHits, attempt, lastErr, invocations, onlyRetryable>>
  /\ ExecFrame

\* a wait that only the timer ends
ExecWaitTimerOnly ==
  /\ exPc \in {"wait", "elapsed"}
  /\ exPc' = "op"
  /\ UNCHANGED <<exErr, rateLimitHits, attempt, lastErr, invocations, waits, onlyRetryable>>
  /\ ExecFrame

\* "select { case <-ctx.Done(): return ...; case <-time.After(d): }": the
\* goroutine blocked in the select is woken by whichever happens first, the
\* cancellation or the timer; a select that finds both ready takes either
ExecWait ==
  /\ exPc \in {"wait", "elapsed"}
  /\ \/ ctxDone /\ ExecReturn("cancelled")
     \/ (~ctxDone \/ exPc = "elapsed") /\ exPc' = "op" /\ UNCHANGED exErr
  /\ UNCHANGED <<rateLimitHits, attempt, lastErr, invocations, waits, onlyRetryable>>
  /\ ExecFrame

\* err := operation(), and what the call does with the error
ExecOp ==
  /\ exPc = "op"
  /\ invocations' = invocations + 1
  /\ \/ /\ ExecReturn("nil")
        /\ onlyRetryable' = FALSE
        /\ UNCHANGED <<lastErr, rateLimitHits, attempt>>
     \/ \E e \in ErrTexts :
          /\ lastErr' = e
          /\ onlyRetryable' = (onlyRetryable /\ "rateLimit" \notin e
                                 /\ ("transient" \in e \/ "permanent" \notin e))
          /\ IF Classify(e) = "RateLimited"
             THEN /\ rateLimitHits' = rateLimitHits + 1
                  /\ IF AttemptsLeft(attempt, maxRetries)
                     THEN exPc' = "rlWait" /\ UNCHANGED exErr
                     ELSE ExecReturn("rate limit")
                  /\ UNCHANGED attempt
             ELSE IF Classify(e) = "Permanent"
             THEN /\ ExecReturn("permanent")
                  /\ UNCHANGED <<rateLimitHits, attempt>>
             ELSE /\ IF AttemptsLeft(attempt, maxRetries)
                     THEN exPc' = "top" /\ attempt' = NextAttempt(attempt)
                          /\ UNCHANGED exErr
                     ELSE ExecReturn("failed after retries") /\ UNCHANGED attempt
                  /\ UNCHANGED rateLimitHits
  /\ UNCHANGED waits
  /\ ExecFrame

\* the wait for the rate limit to reset (ResetTime is 10 to 60 minutes away),
\* then "continue"
ExecRateLimitWait ==
  /\ exPc = "rlWait"
  /\ IF ctxDone
     THEN ExecReturn("cancelled") /\ UNCHANGED attempt
     ELSE exPc' = "top" /\ attempt' = NextAttempt(attempt) /\ UNCHANGED exErr
  /\ UNCHANGED <<rateLimitHits, lastErr, invocations, waits, onlyRetryable>>
  /\ ExecFrame

RetryNext ==
  \/ ExecCall
  \/ ExecTop
  \/ ExecWait
  \/ ExecOp
  \/ ExecRateLimitWait
  \/ Cancel

RetrySpec == RetryInit /\ [][RetryNext]_vars


\* ------------------------------------------------------------------------
\* xenforo.Client.GetPosts: one call, with any maxRetries the configuration
\* accepts (Migration.MaxRetries > 0), a server that answers each request
\* with any status or not at all, and a ctx that can be cancelled at any
\* point. Time is counted in seconds while the call is blocked in a wait.
\* ------------------------------------------------------------------------
FetchInit ==
  /\ CommonInit
  /\ ClientIdle
  /\ file = NoFile
  /\ progress = EmptyProgress
  /\ pc = "api"
  /\ xfMaxRetries \in 1..MaxFetchRetries
  /\ xfPc = "idle"
  /\ page = 1
  /\ totalPosts = 1
  /\ fetched = 0
  /\ postsPerPage = 0
  /\ totalPages = 0
  /\ reqI = 0
  /\ remaining = 0
  /\ xfErr = "none"
  /\ requests = 0
  /\ lastResp = "none"
  /\ AttIdle
  /\ ConvIdle

\* what GetPosts leaves alone
FetchFrame ==
  UNCHANGED <<ledgerVars, runVars, destVars, dlVars, fxVars, retryVars, histVars,
              xfMaxRetries, textVars>>

\* GetPosts returns err
FetchReturn(err) ==
  /\ xfPc' = "ret"
  /\ xfErr' = err

\* math.Pow(2, float64(i))
RECURSIVE Pow2(_)
Pow2(n) == IF n = 0 THEN 1 ELSE 2 * Pow2(n - 1)

\* what req() can come back with: a response with a status, or an error (no
\* response: network error or timeout); the request carries ctx
\* (SetContext), so with ctx cancelled it comes back with the ctx error
ReqOutcomes == {"200", "429", "5xx", "neterr"}

Req(cancelled) == IF cancelled THEN {"ctxerr"} ELSE ReqOutcomes

\* the body of a 200 response: the number of posts it holds, or -1 when
\* json.Unmarshal fails on it
Bodies == -1..MaxPageSize

\* the call starts: totalPosts := thread.ReplyCount + 1, then the first page
GetPostsCall ==
  /\ pc = "api"
  /\ xfPc = "idle"
  /\ xfPc' = "check"
  /\ page' = 1
  /\ \E replyCount \in 0..MaxReplies : totalPosts' = replyCount + 1
  /\ fetched' = 0
  /\ postsPerPage' = 0
  /\ totalPages' = 0
  /\ UNCHANGED <<reqI, remaining, xfErr, requests, lastResp>>
  /\ FetchFrame

\* "select { case <-ctx.Done(): return nil, ctx.Err(); default: }" before the
\* request of a page, then the call of retryableRequest
GetPostsCheck ==
  /\ xfPc = "check"
  /\ IF ctxDone
     THEN FetchReturn("ctx") /\ UNCHANGED <<reqI, requests>>
     ELSE xfPc' = "req" /\ reqI' = 0 /\ requests' = 0 /\ UNCHANGED xfErr
  /\ UNCHANGED <<page, remaining, lastResp, pageVars>>
  /\ FetchFrame

\* a first page that leaves posts to fetch: the ceiling division has no
\* guard, and an integer division by zero is a run-time panic
FirstPage(n) ==
  IF n = 0
    THEN xfPc' = "panic" /\ UNCHANGED <<page, totalPages, xfErr>>
    ELSE /\ totalPages' = (totalPosts + n - 1) \div n
         /\ page' = 2
         /\ xfPc' = "check"
         /\ UNCHANGED xfErr

\* what GetPosts does with a 200 response that holds n posts
PageFetched(n) ==
  /\ fetched' = fetched + n
  /\ IF page = 1
       THEN /\ postsPerPage' = n
            /\ IF n >= totalPosts
                 THEN FetchReturn("nil") /\ UNCHANGED <<page, totalPages>>
                 ELSE FirstPage(n)
            /\ UNCHANGED remaining
       ELSE /\ IF n < postsPerPage
                 THEN FetchReturn("nil") /\ UNCHANGED remaining
                 ELSE xfPc' = "pace" /\ remaining' = 1 /\ UNCHANGED xfErr
            /\ UNCHANGED <<page, postsPerPage, totalPages>>

\* one turn of the loop of retryableRequest, and what GetPosts does with what
\* retryableRequest returns
RetryableRequest ==
  /\ xfPc = "req"
  /\ IF reqI >= xfMaxRetries
     THEN /\ FetchReturn("max retries")
          /\ UNCHANGED <<page, reqI, remaining, requests, lastResp, pageVars>>
     ELSE \E r \in Req(ctxDone) :
            /\ requests' = requests + 1
            /\ lastResp' = r
            /\ CASE r \in {"neterr", "ctxerr"} ->
                      FetchReturn(r) /\ UNCHANGED <<page, reqI, remaining, pageVars>>
                 [] r = "5xx" ->
                      /\ FetchReturn("api error")
                      /\ UNCHANGED <<page, reqI, remaining, pageVars>>
                 [] r = "200" ->
                      \E n \in Bodies :
                        /\ IF n < 0
                             THEN /\ FetchReturn("json")
                                  /\ UNCHANGED <<page, remaining, pageVars>>
                             ELSE PageFetched(n) /\ UNCHANGED totalPosts
                        /\ UNCHANGED reqI
                 [] r = "429" ->
                      /\ IF reqI < xfMaxRetries - 1
                         THEN /\ xfPc' = "sleep"
                              /\ remaining' = Pow2(reqI)
                              /\ UNCHANGED <<page, reqI, xfErr>>
                         ELSE /\ reqI' = reqI + 1
                              /\ UNCHANGED <<xfPc, page, remaining, xfErr>>
                      /\ UNCHANGED pageVars
  /\ FetchFrame

\* time.Sleep(delay) of retryableRequest, second by second, then i++
RequestSleep ==
  /\ xfPc = "sleep"
  /\ IF remaining > 0
     THEN remaining' = remaining - 1 /\ UNCHANGED <<xfPc, reqI>>
     ELSE xfPc' = "req" /\ reqI' = reqI + 1 /\ UNCHANGED remaining
  /\ UNCHANGED <<page, xfErr, requests, lastResp, pageVars>>
  /\ FetchFrame

\* "select { case <-ctx.Done(): return nil, ctx.Err(); case <-time.After(1 *
\* time.Second): }" after a page, then page++ and the loop condition
GetPostsPace ==
  /\ xfPc = "pace"
  /\ IF ctxDone
     THEN FetchReturn("ctx") /\ UNCHANGED <<page, remaining>>
     ELSE IF remaining > 0
     THEN remaining' = remaining - 1 /\ UNCHANGED <<xfPc, page, xfErr>>
     ELSE IF page + 1 <= totalPages
     THEN page' = page + 1 /\ xfPc' = "check" /\ UNCHANGED <<remaining, xfErr>>
     ELSE FetchReturn("nil") /\ UNCHANGED <<page, remaining>>
  /\ UNCHANGED <<reqI, requests, lastResp, pageVars>>
  /\ FetchFrame

FetchNext ==
  \/ GetPostsCall
  \/ GetPostsCheck
  \/ RetryableRequest
  \/ RequestSleep
  \/ GetPostsPace
  \/ Cancel

FetchSpec == FetchInit /\ [][FetchNext]_vars

\* ========================================================================
\* Properties
\* ========================================================================
CompletedSet(p) == Range(p.CompletedThreads)
FailedSet(p)    == Range(p.FailedThreads)

\* C1: across any sequence of runs over the same progress file, crashes and
\* cancellations included, no thread has its discussion created more than once.
C1_NoDuplicateDiscussion ==
  \A t \in ThreadIDs : created[t] # "many"

\* the thread the loop has in hand
InHand == IF i \in DOMAIN threads THEN {threads[i]} ELSE {}

\* C2: when the process crashes during a pass in which every Save so far has
\* succeeded, the ledger the next start loads contains every thread recorded
\* before the crash: at most the thread in hand is missing from it.
C2_CrashKeepsRecorded ==
  [][(Crash /\ ~saveFailed) =>
       /\ (CompletedSet(progress) \ InHand) \subseteq CompletedSet(Load(file', FALSE))
       /\ (FailedSet(progress) \ InHand) \subseteq FailedSet(Load(file', FALSE))]_vars

\* C3: saving is atomic with respect to crashes and write errors: the progress
\* file never holds a truncated or partly written state.
C3_FileNeverTorn ==
  file.kind # "torn"

\* C4: no identifier is in both the completed set and the failed set of the
\* ledger, over the passes the migration loop makes on one progress file.
C4_CompletedFailedDisjoint ==
  CompletedSet(progress) \cap FailedSet(progress) = {}

\* C5: MarkCompleted and MarkFailed are idempotent: a call repeated with the same
\* identifier leaves the whole MigrationProgress as the first call left it,
\* whatever time has passed, and the identifier occurs exactly once in its list.
C5_MarkIdempotent ==
  (lastCall.op \in MarkOps /\ prevCall = lastCall) =>
     /\ progress = preCall
     /\ Count(MarkList(lastCall.op, progress), lastCall.id) = 1

C5_Witness ==
  /\ lastCall.op = "MarkCompleted"
  /\ prevCall = lastCall
  /\ now > progress.LastUpdated
  /\ FailedSet(progress) # {}

\* C6: FilterCompletedThreads returns exactly the candidates whose identifier is
\* not in the completed set, in their original order; a candidate recorded
\* failed but not completed is always returned.
C6_FilterPending ==
  /\ threads = SelectSeq(candidates, LAMBDA t : t \notin filterP.completed)
  /\ \A k \in DOMAIN candidates :
       candidates[k] \in filterP.failed \ filterP.completed
         => candidates[k] \in Range(threads)

C6_Witness ==
  /\ pc = "api"
  /\ Len(threads) < Len(candidates)
  /\ \E k \in DOMAIN threads : threads[k] \in filterP.failed

\* the progress file holds the outcome recorded for thread t
FileHasOutcome(t) ==
  /\ file.kind = "json"
  /\ outcome[t] = "ok" => t \in CompletedSet(file.data)
  /\ outcome[t] = "fail" => t \in FailedSet(file.data)

\* C7 as stated: whenever processing of a thread begins, the outcome of the
\* previous thread of the pass is in the progress file.
C7_PersistedBeforeNext ==
  (InFlight /\ i > 1) => FileHasOutcome(threads[i - 1])

\* C7 as amended: whenever processing of a thread begins, the mark call for the
\* previous thread has returned, and unless a Save of the pass returned an error
\* (logged as a warning, the loop goes on) its outcome is in the progress file.
C7_PersistedUnlessSaveFailed ==
  (InFlight /\ i > 1) =>
     /\ outcome[threads[i - 1]] # "none"
     /\ ~saveFailed => FileHasOutcome(threads[i - 1])

C7_Witness ==
  /\ pc = "fetchPosts"
  /\ i > 1
  /\ ~saveFailed
  /\ outcome[threads[i - 1]] = "fail"

\* C8: when the cancellation signal fires while a thread is in flight, every
\* thread completed earlier stays marked completed and the thread in flight ends
\* up in neither the completed nor the failed set.
C8_InFlightLeftUnmarked ==
  (cancelAt # 0 /\ pc = "done") =>
     /\ \A t \in ThreadIDs :
          (outcome[t] = "ok" /\ t # cancelAt) => t \in CompletedSet(progress)
     /\ cancelAt \notin CompletedSet(progress) \cup FailedSet(progress)

\* the positions at which the pass has its filtered thread list
InPass ==
  \/ pc \in {"loopTop", "markFailed", "markCompleted", "write"}
  \/ InFlight
  \/ pc = "done" /\ ret = "nil"

PassComplete ==
  /\ pc = "done"
  /\ ret = "nil"
  /\ \A k \in DOMAIN threads :
       \/ outcome[threads[k]] = "ok" /\ threads[k] \in CompletedSet(progress)
       \/ outcome[threads[k]] = "fail" /\ threads[k] \in FailedSet(progress)

\* C10: absent cancellation, after a thread fails every pending thread after it
\* is still processed to an outcome and recorded, and the pass ends normally
\* with the summary.
C10_FailureDoesNotStopPass ==
  \A t \in ThreadIDs : (outcome[t] = "fail") ~> PassComplete

C10_Witness ==
  /\ PassComplete
  /\ Len(threads) > 1
  /\ outcome[threads[1]] = "fail"
  /\ outcome[threads[2]] = "ok"

\* C11: when fetching a thread's posts fails, or creating its discussion fails,
\* processThread returns the error (MarkFailed is next) and nothing of the
\* thread has been submitted in this pass: no discussion, no comment.
C11_AbortWithoutSubmission ==
  perr \in {"fetch", "create"} =>
     /\ pc = "markFailed"
     /\ discussionID = ""
     /\ comments = {}

C11_Witness ==
  /\ pc = "markFailed"
  /\ perr = "create"
  /\ posts > 1
  /\ ~dryRun

\* C12: within a thread the posts are submitted in their order: a discussion is
\* created only for the first post, before any comment, and a comment is
\* added only for the post in hand, after the ones added before it, and only
\* once the discussion of the thread exists.
C12_OrderedAfterContainer ==
  [][/\ created' # created =>
          /\ pc = "submit" /\ j = 1 /\ comments = {} /\ discussionID = ""
     /\ (comments' \ comments) # {} =>
          /\ discussionID = "D"
          /\ j > 1
          /\ comments' = comments \cup {j}
          /\ \A k \in comments : k < j]_vars

C12_Witness ==
  /\ pc = "markCompleted"
  /\ posts >= 3
  /\ discussionID = "D"
  /\ comments = 2..posts

C14_DownloadNeverTerminal ==
  /\ [][(pc = "download" /\ pc' \notin {"download", "stopped"}) =>
          /\ pc' = "postTop"
          /\ perr' = "nil"
          /\ (ctxDone \/ att > atts)]_vars
  /\ []((dlFailed /\ pc = "markFailed") => perr \in {"ctx", "format", "create"})

C14_Witness ==
  /\ pc = "markCompleted"
  /\ dlFailed
  /\ discussionID = "D"
  /\ comments = 2..posts
  /\ posts > 1

\* C15: thread completion is all-or-nothing: when processThread returns, either
\* every post of the thread has been submitted and the thread is about to be
\* recorded completed, or nothing of it has been submitted.
C15_AllOrNothing ==
  pc \in {"markCompleted", "markFailed"} =>
     \/ pc = "markCompleted" /\ discussionID = "D" /\ comments = 2..posts
     \/ discussionID = "" /\ comments = {}

\* C16 as stated: one executeWithRetry call never invokes the operation more
\* often than maxRetries, the first try included.
C16_InvocationsWithinMaxRetries ==
  invocations <= maxRetries

\* C16 as amended: one executeWithRetry call never invokes the operation more
\* often than maxRetries + 1: the first try and at most maxRetries retries,
\* for every sequence of outcomes of the operation.
C16_InvocationsWithinMaxRetriesPlusOne ==
  invocations <= maxRetries + 1

C16_Witness ==
  /\ exPc = "ret"
  /\ maxRetries >= 2
  /\ invocations = maxRetries + 1
  /\ rateLimitHits >= 1
  /\ ~onlyRetryable

\* C17: without cancellation, a call whose operation fails with a retryable
\* error every time has invoked it exactly maxRetries + 1 times when it
\* returns, and returns the "failed after retries" error.
C17_ExactlyMaxRetriesPlusOne ==
  (exPc = "ret" /\ onlyRetryable /\ ~ctxDone) =>
     /\ invocations = maxRetries + 1
     /\ exErr = "failed after retries"

C17_Witness ==
  /\ exPc = "ret"
  /\ onlyRetryable
  /\ ~ctxDone
  /\ maxRetries >= 2
  /\ invocations = maxRetries + 1

\* the text has a permanent signature and is neither a rate limit nor transient
PermanentText(e) ==
  "permanent" \in e /\ "transient" \notin e /\ "rateLimit" \notin e

\* C18: when an attempt fails with an error classified Permanent the call has
\* returned that error at once: the operation is not invoked again and no
\* wait follows, however many attempts remain.
C18_PermanentReturnsAtOnce ==
  PermanentText(lastErr) =>
     /\ exPc = "ret"
     /\ exErr = "permanent"
     /\ invocations = attempt + 1
     /\ Len(waits) = attempt

C18_Witness ==
  /\ exErr = "permanent"
  /\ invocations >= 2
  /\ AttemptsLeft(attempt, maxRetries)

\* C19: an attempt that fails with a text carrying a rate-limit signature,
\* whatever else the text carries, counts as a rate limit hit and is never
\* returned as a permanent error: the call waits for the reset and retries
\* while attempts remain, and returns the rate limit error when none does.
C19_RateLimitBeforePermanent ==
  [][(invocations' = invocations + 1 /\ exErr' # "nil" /\ "rateLimit" \in lastErr') =>
        /\ rateLimitHits' = rateLimitHits + 1
        /\ exErr' # "permanent"
        /\ attempt < maxRetries => (exPc' = "rlWait" /\ exErr' = "none")
        /\ attempt >= maxRetries => (exPc' = "ret" /\ exErr' = "rate limit")]_vars

C19_Witness ==
  /\ exErr = "nil"
  /\ invocations >= 2
  /\ lastErr = {"rateLimit", "permanent"}
  /\ rateLimitHits >= 1

\* k * multiple seconds in nanoseconds, without overflow
ExactBackoff(k, m) == Mul(Mul(Bytes(k), m, WideBytes), Second, WideBytes)

\* min(k * multiple seconds, cap)
CappedBackoff(k, m) ==
  IF LessFrom(maxBackoffDuration, ExactBackoff(k, m), WideBytes)
  THEN [p \in 1..WideBytes |-> Limb(maxBackoffDuration, p)]
  ELSE ExactBackoff(k, m)

\* C20: the wait before retry attempt k is min(k * multiple seconds, cap): the
\* waits of a call never decrease from one attempt to the next and none
\* exceeds the cap, for every multiple >= 1.
C20_BackoffMonotoneCapped ==
  \A k \in DOMAIN waits :
     /\ ~Negative(waits[k])
     /\ [p \in 1..WideBytes |-> Limb(waits[k], p)] = CappedBackoff(k, multiple)
     /\ ~Less64(maxBackoffDuration, waits[k])
     /\ k > 1 => ~Less64(waits[k], waits[k - 1])

C22_CancellationDistinguished ==
  (exPc = "ret" /\ exErr # "nil"
     /\ cancelPos \in {"top", "wait", "elapsed", "op", "rlWait"}) =>
     exErr = "cancelled"

\* a wait the GetPosts call can be blocked in
FetchWaits == {"sleep", "pace"}

\* C23: once ctx is cancelled, a call that is blocked in a wait (the backoff
\* of retryableRequest, the pacing delay between two pages) leaves the wait
\* at its next step instead of waiting on.
C23_WaitsCancellable ==
  [][(ctxDone /\ xfPc \in FetchWaits) => xfPc' \notin FetchWaits]_vars

\* C24: when GetPosts returns because a request failed with a retryable
\* failure (no response, or a 5xx response), retryableRequest has made as
\* many requests as the configured bound allows.
C24_RetryableFailureRetried ==
  (xfPc = "ret" /\ lastResp \in {"neterr", "5xx"}) => requests = xfMaxRetries

\* C25: in a dry run no step of the pass changes the progress file.
C25_DryRunKeepsFile ==
  [][dryRun => file' = file]_vars

\* C26: a dry-run pass makes no createDiscussion or addComment call to the
\* destination, downloads no attachment and creates no directory or file in
\* or under the attachments directory; the destination stays as it was.
C26_DryRunChangesNothing ==
  dryRun =>
     /\ issued = {}
     /\ comments = {}
     /\ \A t \in ThreadIDs : created[t] = "none"

C26_Witness ==
  /\ dryRun
  /\ \E t \in ThreadIDs : outcome[t] = "ok"
  /\ pc = "download"
  /\ atts > 0
  /\ att > atts

\* C27: a start with a progress file that does not parse is never aborted by
\* the tracker: Migrator.Run goes on to the pre-flight checks and the pass with
\* a Tracker whose completed and failed lists are empty.
C27_ParseFailureNotFatal ==
  /\ ret # "tracker"
  /\ pc = "getThreads" =>
        (progress.CompletedThreads = <<>> /\ progress.FailedThreads = <<>>)

C27_Witness ==
  /\ pc = "done"
  /\ ret = "nil"
  /\ \E t \in ThreadIDs : outcome[t] = "ok"

\* C28: the run that started with a progress file that does not parse leaves
\* that file as it found it.
C28_CorruptFileLeftInPlace ==
  file = TornFile

\* C29: a SetResumeFrom(id) call changes LastThreadID and nothing else of the
\* progress: the completed and the failed lists are what they were.
C29_SetResumeFromKeepsLists ==
  lastCall.op = "SetResumeFrom" =>
     /\ progress.CompletedThreads = preCall.CompletedThreads
     /\ progress.FailedThreads = preCall.FailedThreads
     /\ progress = [preCall EXCEPT !.LastThreadID = lastCall.id]

C29_Witness ==
  /\ lastCall.op = "SetResumeFrom"
  /\ preCall.CompletedThreads # <<>>
  /\ preCall.FailedThreads # <<>>
  /\ preCall.LastThreadID # lastCall.id

\* C30: in a run with a resume point (no progress file: LastThreadID is the
\* configured ResumeFrom until the first MarkCompleted of the run), the first
\* thread the run processes does not precede the resume point.
C30_ResumePointSkipsEarlier ==
  (pc = "fetchPosts" /\ i = 1 /\ progress.LastThreadID > 0) =>
     threads[i] >= progress.LastThreadID

\* ------------------------------------------------------------------------
\* Attachment paths (attachments.FileSanitizer, attachments.Downloader).
\* A string is a sequence of characters; an element that is not one of
\* "/", ".", " " stands for text without separators, dots or blanks (one
\* letter, or a run of letters such as "png"). The
\* operators below are path/filepath and strings of the Go standard library
\* on a system whose separator is "/".
\* ------------------------------------------------------------------------
MaxNameLen == 5      \* an attachment filename has 0..MaxNameLen characters

Chars == {"a", ".", "/", " "}
Names == UNION {[1..n -> Chars] : n \in 0..MaxNameLen}

DotDot == <<".", ".">>

\* strings.Split(s, sep), sep being one character
SplitOn(s, sep) ==
  LET RECURSIVE go(_, _, _)
      go(k, cur, acc) ==
        IF k > Len(s) THEN Append(acc, cur)
        ELSE IF s[k] = sep THEN go(k + 1, <<>>, Append(acc, cur))
        ELSE go(k + 1, Append(cur, s[k]), acc)
  IN go(1, <<>>, <<>>)

\* strings.Split(s, "/")
Split(s) == SplitOn(s, "/")

\* strings.Join(segs, "/")
JoinSegs(segs) ==
  LET RECURSIVE go(_, _)
      go(k, acc) ==
        IF k > Len(segs) THEN acc
        ELSE go(k + 1, IF k = 1 THEN segs[k] ELSE acc \o <<"/">> \o segs[k])
  IN go(1, <<>>)

IsAbs(p) == Len(p) > 0 /\ p[1] = "/"

\* the path elements filepath.Clean keeps: empty and "." elements are
\* dropped, ".." removes the element before it, is dropped at the root and
\* is kept at the head of a relative path
CleanSegs(segs, rooted) ==
  LET RECURSIVE go(_, _)
      go(k, out) ==
        IF k > Len(segs) THEN out
        ELSE IF segs[k] \in {<<>>, <<".">>} THEN go(k + 1, out)
        ELSE IF segs[k] = DotDot
          THEN IF Len(out) > 0 /\ out[Len(out)] # DotDot
                 THEN go(k + 1, SubSeq(out, 1, Len(out) - 1))
                 ELSE IF rooted THEN go(k + 1, out)
                 ELSE go(k + 1, Append(out, DotDot))
        ELSE go(k + 1, Append(out, segs[k]))
  IN go(1, <<>>)

\* filepath.Clean
Clean(p) ==
  IF p = <<>> THEN <<".">>
  ELSE LET out == CleanSegs(Split(p), IsAbs(p))
       IN IF IsAbs(p) THEN <<"/">> \o JoinSegs(out)
          ELSE IF out = <<>> THEN <<".">> ELSE JoinSegs(out)

\* filepath.Join of two elements: empty elements are ignored, the rest is
\* joined with the separator and cleaned
Join(a, b) ==
  IF a = <<>> /\ b = <<>> THEN <<>>
  ELSE IF a = <<>> THEN Clean(b)
  ELSE IF b = <<>> THEN Clean(a)
  ELSE Clean(a \o <<"/">> \o b)

\* the working directory of the process
Cwd == <<"/", "w">>

\* filepath.Abs
Abs(p) == IF IsAbs(p) THEN Clean(p) ELSE Join(Cwd, p)

\* filepath.Rel of two absolute paths: the common elements are dropped, one
\* ".." is written per element left of the base, then what is left of the
\* target; "." when they are the same
Rel(base, targ) ==
  LET b == CleanSegs(Split(base), TRUE)
      t == CleanSegs(Split(targ), TRUE)
      RECURSIVE common(_)
      common(k) == IF k < Len(b) /\ k < Len(t) /\ b[k + 1] = t[k + 1]
                     THEN common(k + 1) ELSE k
      c   == common(0)
      ups == [k \in 1..(Len(b) - c) |-> DotDot]
      out == ups \o SubSeq(t, c + 1, Len(t))
  IN IF out = <<>> THEN <<".">> ELSE JoinSegs(out)

\* filepath.IsLocal
IsLocal(p) ==
  IF IsAbs(p) \/ p = <<>> THEN FALSE
  ELSE LET segs    == Split(p)
           hasDots == \E k \in DOMAIN segs : segs[k] \in {<<".">>, DotDot}
           q       == IF hasDots THEN Clean(p) ELSE p
       IN ~(q = DotDot \/ (Len(q) >= 3 /\ SubSeq(q, 1, 3) = <<".", ".", "/">>))

\* filepath.Base
Base(p) ==
  IF p = <<>> THEN <<".">>
  ELSE LET RECURSIVE strip(_)
           strip(q) == IF Len(q) > 0 /\ q[Len(q)] = "/"
                         THEN strip(SubSeq(q, 1, Len(q) - 1)) ELSE q
           q    == strip(p)
           segs == Split(q)
       IN IF q = <<>> THEN <<"/">> ELSE segs[Len(segs)]

\* filepath.Ext: the suffix from the last dot of the last path element
Ext(p) ==
  LET RECURSIVE go(_)
      go(k) == IF k < 1 \/ p[k] = "/" THEN <<>>
               ELSE IF p[k] = "." THEN SubSeq(p, k, Len(p))
               ELSE go(k - 1)
  IN go(Len(p))

\* strings.ToLower
ToLower(s) ==
  [k \in DOMAIN s |-> CASE s[k] = "A" -> "a"
                         [] s[k] = "PNG" -> "png"
                         [] s[k] = "IMG" -> "img"
                         [] OTHER -> s[k]]

\* the white space strings.TrimSpace removes
Space == {" ", "\t", "\n", "\r"}

\* strings.Trim(s, cutset), cutset being a set of characters
Trim(s, cutset) ==
  LET RECURSIVE left(_)
      left(k) == IF k <= Len(s) /\ s[k] \in cutset THEN left(k + 1) ELSE k
      RECURSIVE right(_)
      right(k) == IF k >= 1 /\ s[k] \in cutset THEN right(k - 1) ELSE k
  IN SubSeq(s, left(1), right(Len(s)))

\* strings.TrimSpace
TrimSpace(s) == Trim(s, Space)

\* the characters SanitizeFilename replaces
unsafe == {"/", "\\", ":", "*", "?", "\"", "<", ">", "|"}

\* FileSanitizer.SanitizeFilename (the name it returns when ctx is live)
SanitizeFilename(filename) ==
  IF filename = <<>> THEN <<"unnamed_file">>
  ELSE LET f1 == IF ~IsLocal(filename) THEN Base(filename) ELSE filename
           f2 == [k \in DOMAIN f1 |-> IF f1[k] \in unsafe THEN "_" ELSE f1[k]]
           f3 == TrimSpace(f2)
       IN IF f3 = <<>> THEN <<"unnamed_file">> ELSE f3

\* a validation that rejects every path that has a ".." element as written
ValidatePathRawScan(cancelled, path, baseDir) ==
  IF cancelled THEN "ctx"
  ELSE IF \E k \in DOMAIN Split(path) : Split(path)[k] = DotDot THEN "traversal"
  ELSE "nil"

\* FileSanitizer.ValidatePath: "ctx" | "traversal" | "absolute" | "nil"
ValidatePath(cancelled, path, baseDir) ==
  IF cancelled THEN "ctx"
  ELSE LET relPath == Rel(Abs(Clean(baseDir)), Abs(Clean(path)))
       IN IF \E k \in DOMAIN Split(relPath) : Split(relPath)[k] = DotDot
            THEN "traversal"
          ELSE IF IsAbs(relPath) THEN "absolute"
          ELSE "nil"

\* an extension taken from the first dot of the whole string
getFileExtensionWholeName(filename) ==
  LET RECURSIVE first(_)
      first(k) == IF k > Len(filename) THEN <<>>
                  ELSE IF filename[k] = "." THEN SubSeq(filename, k + 1, Len(filename))
                  ELSE first(k + 1)
  IN IF first(1) = <<>> THEN <<"unknown">> ELSE ToLower(first(1))

\* Downloader.getFileExtension
getFileExtension(filename) ==
  LET ext == ToLower(Ext(filename))
  IN IF ext = <<>> THEN <<"unknown">>
     ELSE IF ext[1] = "." THEN Tail(ext) ELSE ext

\* fmt.Sprintf("attachment_%d_%s", id, name)
AttachmentName(id, name) == <<"attachment_", ToString(id), "_">> \o name

\* Downloader.attachmentsDir, the sandbox root
attachmentsDir == <<"r">>


\* ------------------------------------------------------------------------
\* One attachment handled by the Downloader, process start after process
\* start: downloadSingle (with the file the source client writes straight to
\* the path it is given), then ReplaceAttachmentLinks for the same
\* attachment. The filename is any string over Chars; ctx stays live. Before
\* the first start ValidatePath is applied to the sandbox root joined with
\* the raw filename.
\* ------------------------------------------------------------------------
AttachInit ==
  /\ CommonInit
  /\ ClientIdle
  /\ FetchIdle
  /\ file = NoFile
  /\ progress = EmptyProgress
  /\ pc = "api"
  /\ ConvIdle
  /\ attachment \in [AttachmentID : {1}, Filename : Names]
  /\ dsPc = "idle"
  /\ vpErr = "none"
  /\ filePath = <<>>
  /\ dsErr = "none"
  /\ disk = "absent"
  /\ relativePath = <<>>
  /\ handed = {}
  /\ attachments = <<>>
  /\ message = <<>>
  /\ rk = 1
  /\ rwPc = "idle"
  /\ srcMessage = <<>>

\* what the Downloader leaves alone
AttachFrame ==
  UNCHANGED <<ledgerVars, dryRun, pc, ret, candidates, threads, i, posts, j,
              discussionID, perr, destVars, dlVars, fxVars, retryVars, fetchVars,
              histVars, attachment, rwVars, convVars>>

\* ValidatePath(filepath.Join(sandbox, filename), sandbox)
ValidatePathCall ==
  /\ dsPc = "idle"
  /\ vpErr = "none"
  /\ vpErr' = ValidatePath(ctxDone, Join(attachmentsDir, attachment.Filename),
                           attachmentsDir)
  /\ UNCHANGED <<dsPc, filePath, dsErr, disk, relativePath, handed, runs>>
  /\ AttachFrame

\* a process starts and comes to the attachment
AttachStart ==
  /\ dsPc \in {"idle", "done", "gone"}
  /\ vpErr # "none"
  /\ runs < MaxRuns
  /\ runs' = runs + 1
  /\ dsPc' = "single"
  /\ filePath' = <<>>
  /\ dsErr' = "none"
  /\ relativePath' = <<>>
  /\ handed' = {}
  /\ UNCHANGED <<vpErr, disk>>
  /\ AttachFrame

\* the directory downloadSingle creates for the attachment
SingleDir(a) == Join(attachmentsDir, getFileExtension(a.Filename))

\* the path downloadSingle computes for the attachment
SinglePath(a) ==
  Join(SingleDir(a), AttachmentName(a.AttachmentID, SanitizeFilename(a.Filename)))

\* what client.DownloadAttachment can leave at the path it was given: the
\* whole body, nothing (no response), or the part of the body that was
\* written when the copy failed
DownloadOutcomes == {"ok", "noResponse", "torn"}

\* Downloader.downloadSingle
DownloadSingle ==
  /\ dsPc = "single"
  /\ filePath' = SinglePath(attachment)
  /\ \/ /\ dsErr' = "mkdir"
        /\ UNCHANGED <<disk, handed>>
     \/ IF ValidatePath(ctxDone, SinglePath(attachment), SingleDir(attachment)) # "nil"
          THEN dsErr' = "security" /\ UNCHANGED <<disk, handed>>
        ELSE IF disk # "absent"
          THEN dsErr' = "nil" /\ UNCHANGED <<disk, handed>>
        ELSE /\ handed' = handed \cup {SinglePath(attachment)}
             /\ \E o \in DownloadOutcomes :
                  /\ disk' = CASE o = "ok" -> "complete"
                               [] o = "noResponse" -> "absent"
                               [] o = "torn" -> "partial"
                  /\ dsErr' = IF o = "ok" THEN "nil" ELSE "download"
  /\ dsPc' = "rewrite"
  /\ UNCHANGED <<vpErr, relativePath, runs>>
  /\ AttachFrame

\* the process dies while the body of the download is being written
DownloadCrash ==
  /\ dsPc = "single"
  /\ ValidatePath(ctxDone, SinglePath(attachment), SingleDir(attachment)) = "nil"
  /\ disk = "absent"
  /\ filePath' = SinglePath(attachment)
  /\ handed' = handed \cup {SinglePath(attachment)}
  /\ disk' = "partial"
  /\ dsPc' = "gone"
  /\ UNCHANGED <<vpErr, dsErr, relativePath, runs>>
  /\ AttachFrame

\* the relative path ReplaceAttachmentLinks writes for the attachment
LinkPath(a) ==
  <<".", "/">> \o getFileExtension(SanitizeFilename(a.Filename)) \o <<"/">>
    \o AttachmentName(a.AttachmentID, SanitizeFilename(a.Filename))

\* Downloader.ReplaceAttachmentLinks, for the attachment in hand
ReplaceAttachmentLinksPath ==
  /\ dsPc = "rewrite"
  /\ relativePath' = LinkPath(attachment)
  /\ dsPc' = "done"
  /\ UNCHANGED <<vpErr, filePath, dsErr, disk, handed, runs>>
  /\ AttachFrame

AttachNext ==
  \/ ValidatePathCall
  \/ AttachStart
  \/ DownloadSingle
  \/ DownloadCrash
  \/ ReplaceAttachmentLinksPath

AttachSpec == AttachInit /\ [][AttachNext]_vars

\* the path is the sandbox root or lies under it
Inside(path, root) ==
  LET r == CleanSegs(Split(Abs(root)), TRUE)
      q == CleanSegs(Split(Abs(path)), TRUE)
  IN Len(q) >= Len(r) /\ SubSeq(q, 1, Len(r)) = r


\* C31: whatever the filename of the attachment, every path handed to the
\* download call lies inside the sandbox root (Downloader.attachmentsDir).
C31_DownloadInsideSandbox ==
  \A path \in handed : Inside(path, attachmentsDir)

\* a download was issued for a filename whose plain join with the sandbox
\* root leaves the sandbox
C31_Witness ==
  /\ handed # {}
  /\ ~Inside(Join(attachmentsDir, attachment.Filename), attachmentsDir)


\* the filename contains the sequence "../"
HasDotDotSlash(name) ==
  \E k \in 1..(Len(name) - 2) : SubSeq(name, k, k + 2) = <<".", ".", "/">>

\* C32 (as stated): ValidatePath rejects the join of the sandbox directory
\* with any filename that contains "../", with a path-traversal error.
C32_DotDotSlashRejected ==
  (vpErr # "none" /\ HasDotDotSlash(attachment.Filename)) => vpErr = "traversal"

\* C32 (amended): ValidatePath rejects the join of the sandbox directory with
\* a filename, with a path-traversal error, exactly when the join resolves
\* outside the sandbox directory.
C32_EscapeRejected ==
  vpErr # "none" =>
    (vpErr = "traversal" <=>
       ~Inside(Join(attachmentsDir, attachment.Filename), attachmentsDir))

\* a filename with "../" somewhere after its head was rejected
C32_Witness ==
  /\ vpErr = "traversal"
  /\ HasDotDotSlash(attachment.Filename)
  /\ SubSeq(attachment.Filename, 1, 3) # <<".", ".", "/">>


\* C39: the relative path ReplaceAttachmentLinks writes for an attachment,
\* resolved against the sandbox root, is the file downloadSingle wrote.
C39_LinkNamesDownloadedFile ==
  (dsPc = "done" /\ dsErr = "nil") =>
     Abs(Join(attachmentsDir, relativePath)) = Abs(filePath)


\* C38: downloadSingle reports an attachment as downloaded only when its
\* whole file is on disk: a file left incomplete by an interrupted download
\* is downloaded again by a later run.
C38_PartialFileDownloadedAgain ==
  (dsPc \in {"rewrite", "done"} /\ dsErr = "nil") => disk = "complete"


\* ------------------------------------------------------------------------
\* Downloader.ReplaceAttachmentLinks on the text of one post. The text is a
\* sequence of pieces: a piece is a run of plain text, a whole reference
\* token, or a piece of a filename or of the markup written by the function.
\* ------------------------------------------------------------------------
MaxMsgLen == 3       \* the text of a post has 0..MaxMsgLen pieces
MaxRefs   == 2       \* a post has 0..MaxRefs attachments, with ids 1..MaxRefs

\* fmt.Sprintf("[ATTACH=%d]", id)
bbCode(id) == "[ATTACH=" \o ToString(id) \o "]"

\* fmt.Sprintf("[ATTACH=full]%d[/ATTACH]", id)
bbCodeFull(id) == "[ATTACH=full]" \o ToString(id) \o "[/ATTACH]"

\* the pieces of a text: plain text and reference tokens, of the attachments
\* of the post and of one identifier that is not among them
Pieces == {"x"} \cup {bbCode(id) : id \in 1..(MaxRefs + 1)}
                \cup {bbCodeFull(id) : id \in 1..(MaxRefs + 1)}
Messages == UNION {[1..n -> Pieces] : n \in 0..MaxMsgLen}

\* filenames of attachments: an image, a document, an image with an
\* upper-case name, and a name that contains the text of a reference token
FileNames ==
  { <<"image", ".", "png">>, <<"doc", ".", "pdf">>, <<"IMG", ".", "PNG">>,
    <<bbCode(MaxRefs), ".", "png">> }

\* lists of attachments with distinct identifiers
AttachmentLists ==
  { l \in UNION {[1..n -> [AttachmentID : 1..MaxRefs, Filename : FileNames]] :
                   n \in 0..MaxRefs} :
      \A a, b \in DOMAIN l : a # b => l[a].AttachmentID # l[b].AttachmentID }

\* Downloader.isImageFile
isImageFile(ext) ==
  ext \in {<<"png">>, <<"jpg">>, <<"jpeg">>, <<"gif">>, <<"webp">>}

\* the markdown ReplaceAttachmentLinks writes for an attachment
markdownLink(a) ==
  IF isImageFile(getFileExtension(SanitizeFilename(a.Filename)))
    THEN <<"![">> \o SanitizeFilename(a.Filename) \o <<"](">> \o LinkPath(a) \o <<")">>
    ELSE <<"[">> \o SanitizeFilename(a.Filename) \o <<"](">> \o LinkPath(a) \o <<")">>

\* strings.ReplaceAll(text, old, new), old being one piece
ReplaceAll(text, old, new) ==
  LET RECURSIVE go(_, _)
      go(k, acc) ==
        IF k > Len(text) THEN acc
        ELSE go(k + 1, IF text[k] = old THEN acc \o new ELSE Append(acc, text[k]))
  IN go(1, <<>>)

RewriteInit ==
  /\ CommonInit
  /\ ClientIdle
  /\ FetchIdle
  /\ file = NoFile
  /\ progress = EmptyProgress
  /\ pc = "api"
  /\ ConvIdle
  /\ attachment = [AttachmentID |-> 1, Filename |-> <<>>]
  /\ dsPc = "idle"
  /\ vpErr = "none"
  /\ filePath = <<>>
  /\ dsErr = "none"
  /\ disk = "absent"
  /\ relativePath = <<>>
  /\ handed = {}
  /\ attachments \in AttachmentLists
  /\ srcMessage \in Messages
  /\ message = srcMessage
  /\ rk = 1
  /\ rwPc = "loop"

\* what ReplaceAttachmentLinks leaves alone
RewriteFrame ==
  UNCHANGED <<file, progress, now, runVars, destVars, dlVars, fxVars, retryVars,
              fetchVars, histVars, attachment, dsPc, vpErr, filePath, dsErr, disk,
              relativePath, handed, attachments, srcMessage, convVars>>

\* Downloader.ReplaceAttachmentLinks: one iteration of the loop, or the
\* return after the last one
ReplaceAttachmentLinks ==
  /\ rwPc = "loop"
  /\ IF rk > Len(attachments)
       THEN rwPc' = "ret" /\ UNCHANGED <<message, rk>>
     ELSE IF ctxDone
       THEN rwPc' = "ret" /\ message' = <<>> /\ UNCHANGED rk
     ELSE /\ message' =
               ReplaceAll(ReplaceAll(message, bbCode(attachments[rk].AttachmentID),
                                     markdownLink(attachments[rk])),
                          bbCodeFull(attachments[rk].AttachmentID),
                          markdownLink(attachments[rk]))
          /\ rk' = rk + 1
          /\ UNCHANGED rwPc
  /\ UNCHANGED ctxDone
  /\ RewriteFrame

\* the cancellation signal fires while the text is rewritten
RewriteCancel ==
  /\ rwPc = "loop"
  /\ ~ctxDone
  /\ ctxDone' = TRUE
  /\ UNCHANGED <<message, rk, rwPc>>
  /\ RewriteFrame

RewriteNext ==
  \/ ReplaceAttachmentLinks
  \/ RewriteCancel

RewriteSpec == RewriteInit /\ [][RewriteNext]_vars

\* the attachment of the list with the identifier (the list is <<>> if none)
RefsWithID(l, id) == SelectSeq(l, LAMBDA a : a.AttachmentID = id)

\* the text in which every reference token of a supplied attachment is
\* replaced by the markdown of that attachment and nothing else is changed
Rewritten(text, l) ==
  LET RECURSIVE go(_, _)
      go(k, acc) ==
        IF k > Len(text) THEN acc
        ELSE LET ids == {id \in 1..MaxRefs :
                           /\ text[k] \in {bbCode(id), bbCodeFull(id)}
                           /\ RefsWithID(l, id) # <<>>}
             IN go(k + 1, IF ids = {} THEN Append(acc, text[k])
                          ELSE acc \o markdownLink(
                                 RefsWithID(l, CHOOSE id \in ids : TRUE)[1]))
  IN go(1, <<>>)

\* C33: when ReplaceAttachmentLinks has returned the text, no reference token
\* of a supplied attachment is left in it, and the text is the one it was
\* given with every such token replaced by the image-embed or the link of its
\* attachment and the tokens of other identifiers left as they were.
C33_ReferencesRewritten ==
  (rwPc = "ret" /\ ~ctxDone) =>
     /\ \A k \in DOMAIN message : \A n \in DOMAIN attachments :
          message[k] \notin {bbCode(attachments[n].AttachmentID),
                             bbCodeFull(attachments[n].AttachmentID)}
     /\ message = Rewritten(srcMessage, attachments)


\* ------------------------------------------------------------------------
\* bbcode.Converter.ToMarkdown, pass by pass. The text is a sequence of
\* pieces: a run of plain text, a line break, or a whole tag. Over TextPieces
\* the passes for links, images, spoilers, media, [i], [u], [s], [strike],
\* [center], [color], [size], [font], [list] and attributed quotes match
\* nothing and are left out.
\* ------------------------------------------------------------------------
MaxTextLen == 4      \* the text handed to ToMarkdown has 0..MaxTextLen pieces

\* tags cleanupUnhandledTags matches: the tags of the texts and one tag the
\* converter does not know
Tags == {"[b]", "[/b]", "[code]", "[/code]", "[quote]", "[/quote]", "[foo]"}

TextPieces == Tags \cup {"x", "\n", "[*]"}
Texts == UNION {[1..n -> TextPieces] : n \in 0..MaxTextLen}

\* index of the first piece equal to p after position k (0: none)
IndexAfter(text, k, p) ==
  LET RECURSIVE go(_)
      go(m) == IF m > Len(text) THEN 0 ELSE IF text[m] = p THEN m ELSE go(m + 1)
  IN go(k + 1)

\* the match of open(.*?)close that starts at k: the index of its close tag,
\* 0 if there is none; without the s flag the dot does not match a line break
MatchAt(text, k, open, close, dotAll) ==
  LET m == IndexAfter(text, k, close)
  IN IF text[k] # open \/ m = 0 THEN 0
     ELSE IF ~dotAll /\ \E n \in (k + 1)..(m - 1) : text[n] = "\n" THEN 0
     ELSE m

\* Regexp.ReplaceAllStringFunc for a pattern open(.*?)close: the matches are
\* taken from the left, each replaced by F applied to what it captured
ReplacePairs(text, open, close, dotAll, F(_)) ==
  LET RECURSIVE go(_, _)
      go(k, acc) ==
        IF k > Len(text) THEN acc
        ELSE LET m == MatchAt(text, k, open, close, dotAll)
             IN IF m = 0 THEN go(k + 1, Append(acc, text[k]))
                ELSE go(m + 1, acc \o F(SubSeq(text, k + 1, m - 1)))
  IN go(1, <<>>)

\* the line of three backquotes that opens and closes a fenced block
Fence == "<fence>"

\* what processCodeBlocks writes for a code region
CodeFence(content) ==
  <<"\n", Fence, "\n">> \o TrimSpace(content) \o <<"\n", Fence, "\n">>

\* Converter.processCodeBlocks
processCodeBlocks(input) ==
  ReplacePairs(input, "[code]", "[/code]", TRUE, CodeFence)

\* what processQuotes writes for a simple quote
QuoteLines(content) ==
  LET lines == SplitOn(TrimSpace(content), "\n")
      RECURSIVE go(_, _)
      go(k, acc) == IF k > Len(lines) THEN acc
                    ELSE go(k + 1, acc \o <<"> ">> \o lines[k] \o <<"\n">>)
  IN go(1, <<>>)

\* Converter.processQuotes: at most maxIterations rounds, until a round
\* changes nothing
processQuotes(input) ==
  LET RECURSIVE round(_, _)
      round(n, r) ==
        IF n >= 10 THEN r
        ELSE LET r2 == ReplacePairs(r, "[quote]", "[/quote]", TRUE, QuoteLines)
             IN IF r2 = r THEN r ELSE round(n + 1, r2)
  IN round(0, input)

\* what processFormattingTag writes for [b]...[/b]
Bold(content) ==
  IF TrimSpace(content) = <<>> THEN <<>> ELSE <<"**">> \o content \o <<"**">>

\* Converter.processFormattingTag for the pattern \[b\](.*?)\[/b\]
processFormattingTag(input) ==
  ReplacePairs(input, "[b]", "[/b]", FALSE, Bold)

\* Converter.applySimpleReplacements: the list item marker
applySimpleReplacements(input) ==
  [k \in DOMAIN input |-> IF input[k] = "[*]" THEN "- " ELSE input[k]]

\* Converter.cleanupUnhandledTags
cleanupUnhandledTags(input) ==
  SelectSeq(input, LAMBDA p : p \notin Tags)

\* Converter.finalCleanup: three or more line breaks become two, blanks and
\* tabs are trimmed at both ends
finalCleanup(input) ==
  LET RECURSIVE go(_, _, _)
      go(k, run, acc) ==
        IF k > Len(input) THEN acc
        ELSE IF input[k] = "\n"
          THEN go(k + 1, run + 1, IF run >= 2 THEN acc ELSE Append(acc, input[k]))
        ELSE go(k + 1, 0, Append(acc, input[k]))
  IN Trim(go(1, 0, <<>>), {" ", "\t"})

\* the fenced blocks processCodeBlocks writes for a text, without the line
\* breaks around them
FencedBlocks(input) ==
  LET RECURSIVE go(_, _)
      go(k, acc) ==
        IF k > Len(input) THEN acc
        ELSE LET m == MatchAt(input, k, "[code]", "[/code]", TRUE)
             IN IF m = 0 THEN go(k + 1, acc)
                ELSE go(m + 1, Append(acc,
                       <<Fence, "\n">> \o TrimSpace(SubSeq(input, k + 1, m - 1))
                                       \o <<"\n", Fence>>))
  IN go(1, <<>>)

ConvInit ==
  /\ CommonInit
  /\ ClientIdle
  /\ FetchIdle
  /\ AttIdle
  /\ file = NoFile
  /\ progress = EmptyProgress
  /\ pc = "api"
  /\ bbcode \in Texts
  /\ result = <<>>
  /\ convPc = "idle"
  /\ fenced = <<>>

\* what ToMarkdown leaves alone
ConvFrame ==
  UNCHANGED <<ledgerVars, runVars, destVars, dlVars, fxVars, retryVars, fetchVars,
              histVars, attVars, bbcode>>

\* ToMarkdown is called: a text of white space gives the empty text
ToMarkdown ==
  /\ convPc = "idle"
  /\ IF TrimSpace(bbcode) = <<>>
       THEN convPc' = "ret" /\ result' = <<>>
       ELSE convPc' = "code" /\ result' = bbcode
  /\ UNCHANGED fenced
  /\ ConvFrame

\* result = c.processCodeBlocks(result)
PassCodeBlocks ==
  /\ convPc = "code"
  /\ result' = processCodeBlocks(result)
  /\ fenced' = FencedBlocks(result)
  /\ convPc' = "quotes"
  /\ ConvFrame

\* result = c.processQuotes(result)
PassQuotes ==
  /\ convPc = "quotes"
  /\ result' = processQuotes(result)
  /\ convPc' = "format"
  /\ UNCHANGED fenced
  /\ ConvFrame

\* result = c.processFormattingTag(result, ...)
PassFormatting ==
  /\ convPc = "format"
  /\ result' = processFormattingTag(result)
  /\ convPc' = "simple"
  /\ UNCHANGED fenced
  /\ ConvFrame

\* result = c.applySimpleReplacements(result)
PassSimpleReplacements ==
  /\ convPc = "simple"
  /\ result' = applySimpleReplacements(result)
  /\ convPc' = "cleanup"
  /\ UNCHANGED fenced
  /\ ConvFrame

\* result = c.cleanupUnhandledTags(result)
PassCleanup ==
  /\ convPc = "cleanup"
  /\ result' = cleanupUnhandledTags(result)
  /\ convPc' = "final"
  /\ UNCHANGED fenced
  /\ ConvFrame

\* result = c.finalCleanup(result); return result
PassFinalCleanup ==
  /\ convPc = "final"
  /\ result' = finalCleanup(result)
  /\ convPc' = "ret"
  /\ UNCHANGED fenced
  /\ ConvFrame

ConvNext ==
  \/ ToMarkdown
  \/ PassCodeBlocks
  \/ PassQuotes
  \/ PassFormatting
  \/ PassSimpleReplacements
  \/ PassCleanup
  \/ PassFinalCleanup

ConvSpec == ConvInit /\ [][ConvNext]_vars

\* blk occurs in text as it is
HasBlock(text, blk) ==
  \E k \in 1..(Len(text) - Len(blk) + 1) : SubSeq(text, k, k + Len(blk) - 1) = blk

\* C34: every block fenced by processCodeBlocks is in the text as it was
\* fenced after each later pass of ToMarkdown.
C34_FencedVerbatim ==
  \A n \in DOMAIN fenced : HasBlock(result, fenced[n])


\* C35: a thread whose discussion was created and whose later posts were all
\* added as comments is not put in the failed list when RunMigration records
\* its outcome, whatever happened after the last submission.
C35_SubmittedNeverFailed ==
  [][(/\ pc \in {"markFailed", "markCompleted"}
      /\ discussionID # ""
      /\ posts >= 1
      /\ comments = 2..posts)
     => threads[i] \notin FailedSet(progress')]_vars


\* C36: when the cancellation signal fired while a thread was in flight, the
\* run does not return nil: it returns the cancellation error.
C36_CancelledPassReturnsError ==
  (pc = "done" /\ cancelAt # 0) => ret = "ctx"


\* C37: once a MarkCompleted or MarkFailed call has returned, with or without
\* an error, the completed and failed sets of the Tracker are those of the
\* progress file.
C37_MemoryMatchesFile ==
  (pc = "api" /\ lastCall.op \in MarkOps) =>
     /\ CompletedSet(progress) = CompletedSet(file.data)
     /\ FailedSet(progress) = FailedSet(file.data)

(***************************************************************************)
(* GetPosts and the pages it is answered with                              *)
(***************************************************************************)

\* C40: for every sequence of responses, a first page without posts
\* included, GetPosts returns the posts or an error: it never ends in a
\* run-time panic (its loop is bounded by totalPages)
C40_GetPostsReturns == xfPc # "panic"

====
